---- MODULE Spec2Model ----
(***************************************************************************)
(* Model of the detection-and-scoring engine of IndianEquityAnalyzer       *)
(* (src/app.py): support/resistance levels, trend lines, consolidation     *)
(* zones, Fibonacci levels, the volume profile, the level patterns and     *)
(* the support/resistance step of the trading signal.                      *)
(*                                                                         *)
(* Prices and volumes are integers.  A value the code obtains by a         *)
(* division (a merged level price, a slope, a bin boundary) is kept as an  *)
(* exact fraction [n, d] with d > 0, and every comparison of such values   *)
(* is done by cross multiplication.  Strength is kept in tenths (30 is the *)
(* code's 3.0).  A threshold such as 0.02 is kept in per-mille (20).       *)
(***************************************************************************)
EXTENDS Integers, Sequences, FiniteSets, TLC

VARIABLES data, last

vars == <<data, last>>

(***************************************************************************)
(* Arithmetic helpers.                                                     *)
(***************************************************************************)
Abs(x) == IF x < 0 THEN -x ELSE x

MinI(a, b) == IF a <= b THEN a ELSE b

MaxI(a, b) == IF a >= b THEN a ELSE b

RECURSIVE Gcd(_, _)
Gcd(a, b) == IF b = 0 THEN a ELSE Gcd(b, a % b)

\* the fraction n/d (d > 0) in lowest terms
Frac(n, d) ==
    LET g == Gcd(Abs(n), d)
    IN  IF g = 0 THEN [n |-> n, d |-> d] ELSE [n |-> n \div g, d |-> d \div g]

\* numpy's float64 "x / y <= tn/td" for x >= 0 and a threshold tn/td >= 0:
\* a zero divisor gives inf or nan (the comparison is False, nothing is
\* raised), a negative divisor gives a quotient <= 0.
QuotLE(x, y, tn, td) ==
    IF y > 0 THEN x * td <= tn * y
    ELSE IF y < 0 THEN TRUE
    ELSE FALSE

\* numpy's float64 "x / y < tn/td" for x >= 0 and a threshold tn/td > 0
QuotLT(x, y, tn, td) ==
    IF y > 0 THEN x * td < tn * y
    ELSE IF y < 0 THEN TRUE
    ELSE FALSE

(***************************************************************************)
(* Sequence helpers.                                                       *)
(***************************************************************************)
\* a function over 1..n as an explicit list: TLC keeps a function constructor
\* unevaluated and recomputes an element at every application, a list built
\* by a sequence operator is held as its elements
AsList(f) == f \o << >>

\* the one element of a singleton set: S is evaluated once and its element is
\* held as a value
TheOne(S) == CHOOSE x \in S : TRUE

\* DataFrame.tail(k): the last min(len, k) rows
Tail_(s, k) ==
    IF k <= 0 THEN << >>
    ELSE IF Len(s) <= k THEN s
    ELSE SubSeq(s, Len(s) - k + 1, Len(s))

\* list[:k]
Take(s, k) == IF Len(s) <= k THEN s ELSE SubSeq(s, 1, k)

\* the sequence a, a+1, ..., b (empty when b < a)
Range(a, b) == AsList([k \in 1..MaxI(b - a + 1, 0) |-> a + k - 1])

\* [F(x) for x in s]
MapSeq(s, F(_)) == AsList([i \in 1..Len(s) |-> F(s[i])])

\* list.sort: a stable sort.  LE(a, b) is "a's key is not after b's key" in the
\* sort order; elements with equal keys keep their order.
SortStable(s, LE(_, _)) ==
    LET before(j, i) == \/ ~LE(s[i], s[j])
                        \/ (LE(s[j], s[i]) /\ j < i)
        \* the number of elements sorted before the i-th
        rank == AsList([i \in 1..Len(s) |->
                    Cardinality({j \in 1..Len(s) : before(j, i)})])
    IN  AsList([k \in 1..Len(s) |-> s[CHOOSE i \in 1..Len(s) : rank[i] = k - 1]])

\* min / max of an integer column over the index range a..b of df
ColMin(df, a, b, Col(_)) ==
    CHOOSE m \in {Col(df[i]) : i \in a..b} :
        \A i \in a..b : m <= Col(df[i])

ColMax(df, a, b, Col(_)) ==
    CHOOSE m \in {Col(df[i]) : i \in a..b} :
        \A i \in a..b : m >= Col(df[i])

LowOf(bar) == bar.Low

HighOf(bar) == bar.High

CloseOf(bar) == bar.Close

(***************************************************************************)
(* detect_support_resistance                                               *)
(***************************************************************************)
\* window for local extrema detection
window == 5

\* the length below which detect_support_resistance returns empty lists
MinBarsSR == 20

\* top levels kept
max_levels == 5

\* the recount tolerance of count_touches, 0.01, in per-mille
TouchTolerance == 10

\* the strength cap 3.0, in tenths
StrengthCap == 30

NewLevel(price, date) ==
    [price |-> [n |-> price, d |-> 1], date |-> date, touches |-> 1, strength |-> 10]

PivotLowsStrict(df) ==
    LET idx == SelectSeq(Range(window + 1, Len(df) - window),
                 LAMBDA i : \A j \in ((i - window)..(i + window)) \ {i} :
                                df[i].Low < df[j].Low)
    IN  AsList([k \in 1..Len(idx) |-> NewLevel(df[idx[k]].Low, df[idx[k]].Date)])

\* the pivot-low candidates, for i in range(window, len(df) - window)
PivotLows(df) ==
    LET idx == SelectSeq(Range(window + 1, Len(df) - window),
                 LAMBDA i : df[i].Low = ColMin(df, i - window, i + window, LowOf))
    IN  AsList([k \in 1..Len(idx) |-> NewLevel(df[idx[k]].Low, df[idx[k]].Date)])

\* the pivot-high candidates
PivotHighs(df) ==
    LET idx == SelectSeq(Range(window + 1, Len(df) - window),
                 LAMBDA i : df[i].High = ColMax(df, i - window, i + window, HighOf))
    IN  AsList([k \in 1..Len(idx) |-> NewLevel(df[idx[k]].High, df[idx[k]].Date)])

\* a.price <= b.price for two level prices (fractions)
PriceLE(a, b) == a.price.n * b.price.d <= b.price.n * a.price.d

MergeStepStrengthened(merged, level, threshold_pct) ==
    IF merged = << >>
    THEN <<[level EXCEPT !.strength = MinI(level.strength + 2, StrengthCap)]>>
    ELSE Append(merged, level)

MergeStepHalfThreshold(merged, level, threshold_pct) ==
    IF merged = << >> THEN <<level>>
    ELSE
        LET last_level == merged[Len(merged)]
            lp == last_level.price
            diff == Abs(level.price.n * lp.d - lp.n * level.price.d)
            den  == lp.n * level.price.d
            total_touches == last_level.touches + level.touches
        IN  IF QuotLE(diff, den, threshold_pct, 2000)
            THEN [merged EXCEPT ![Len(merged)] =
                    [price |-> Frac(lp.n * last_level.touches * level.price.d
                                      + level.price.n * level.touches * lp.d,
                                    lp.d * level.price.d * total_touches),
                     date |-> last_level.date,
                     touches |-> total_touches,
                     strength |-> MinI(last_level.strength + 2, StrengthCap)]]
            ELSE Append(merged, level)

\* the body of the loop of merge_levels for one level
MergeStep(merged, level, threshold_pct) ==
    IF merged = << >> THEN <<level>>
    ELSE
        LET last_level == merged[Len(merged)]
            lp == last_level.price
            \* abs(level.price - last.price) / last.price, numerator and
            \* denominator over the common divisor lp.d * level.price.d
            diff == Abs(level.price.n * lp.d - lp.n * level.price.d)
            den  == lp.n * level.price.d
            total_touches == last_level.touches + level.touches
        IN  IF QuotLE(diff, den, threshold_pct, 1000)
            THEN [merged EXCEPT ![Len(merged)] =
                    [price |-> Frac(lp.n * last_level.touches * level.price.d
                                      + level.price.n * level.touches * lp.d,
                                    lp.d * level.price.d * total_touches),
                     date |-> last_level.date,
                     touches |-> total_touches,
                     strength |-> MinI(last_level.strength + 2, StrengthCap)]]
            ELSE Append(merged, level)

RECURSIVE MergeFold(_, _, _, _, _)
\* the loop of merge_levels over levels[lo..hi] in order, from the list
\* merged so far (the range is split in halves to keep the recursion shallow)
MergeFold(levels, lo, hi, merged, threshold_pct) ==
    IF lo > hi THEN merged
    ELSE IF lo = hi THEN MergeStep(merged, levels[lo], threshold_pct)
    ELSE TheOne({MergeFold(levels, (lo + hi) \div 2 + 1, hi, half, threshold_pct) :
            half \in {MergeFold(levels, lo, (lo + hi) \div 2, merged, threshold_pct)}})

merge_levels(levels, threshold_pct) ==
    IF levels = << >> THEN << >>
    ELSE TheOne({MergeFold(sorted, 1, Len(sorted), << >>, threshold_pct) :
            sorted \in {SortStable(levels, PriceLE)}})

TouchesKept(level, price_series) == level.touches

TouchesWithinTwice(level, price_series) ==
    Cardinality({i \in 1..Len(price_series) :
        QuotLE(Abs(price_series[i] * level.price.d - level.price.n),
               level.price.n, 2 * TouchTolerance, 1000)})

TouchesSigned(level, price_series) ==
    Cardinality({i \in 1..Len(price_series) :
        (price_series[i] * level.price.d - level.price.n) * 1000
            <= TouchTolerance * level.price.n})

\* the touches of one level: the prices within 1% of the level's price
TouchesOf(level, price_series) ==
    Cardinality({i \in 1..Len(price_series) :
        QuotLE(Abs(price_series[i] * level.price.d - level.price.n),
               level.price.n, TouchTolerance, 1000)})

count_touches(levels, price_series, min_touches) ==
    LET recount(level) ==
            LET touches == TouchesOf(level, price_series)
            IN  [level EXCEPT !.touches = touches,
                              !.strength = MinI(touches * 5, StrengthCap)]
    IN  SelectSeq(MapSeq(levels, recount), LAMBDA level : level.touches >= min_touches)

\* sort(key=strength, reverse=True): a stable sort, strongest first
StrengthAny(a, b) == TRUE

StrengthLE(a, b) == a.strength <= b.strength

StrengthGE(a, b) == a.strength >= b.strength

TooShortOrEqual(df, minimum) == Len(df) <= minimum

\* "if len(df) < minimum: return" the empty result
TooShort(df, minimum) == Len(df) < minimum

\* the levels found in a window df that is long enough
SupportResistanceOf(df, threshold, min_touches) ==
    LET low_prices  == MapSeq(df, LowOf)
        high_prices == MapSeq(df, HighOf)
        support_levels ==
            count_touches(merge_levels(PivotLows(df), threshold),
                          low_prices, min_touches)
        resistance_levels ==
            count_touches(merge_levels(PivotHighs(df), threshold),
                          high_prices, min_touches)
    IN  [support |-> Take(SortStable(support_levels, StrengthGE), max_levels),
         resistance |-> Take(SortStable(resistance_levels, StrengthGE), max_levels),
         current_price |-> df[Len(df)].Close]

detect_support_resistance(d, lookback_period, threshold, min_touches) ==
    LET df == Tail_(d, lookback_period)
    IN  IF TooShort(df, MinBarsSR)
        THEN [support |-> << >>, resistance |-> << >>]
        ELSE SupportResistanceOf(df, threshold, min_touches)

(***************************************************************************)
(* detect_trend_lines                                                      *)
(***************************************************************************)
\* the length below which detect_trend_lines returns empty lists
MinBarsTrend == 30

\* trend lines kept per direction
MaxTrendLines == 3

\* the touch tolerance of a trend line, 0.02, in per-mille
LineTolerance == 20

\* the swing lows: Low strictly below the Lows one and two bars on each side
SwingLows(df) ==
    LET idx == SelectSeq(Range(3, Len(df) - 2),
                 LAMBDA i : /\ df[i].Low < df[i - 1].Low
                            /\ df[i].Low < df[i + 1].Low
                            /\ df[i].Low < df[i - 2].Low
                            /\ df[i].Low < df[i + 2].Low)
    IN  AsList([k \in 1..Len(idx) |-> [date |-> df[idx[k]].Date, price |-> df[idx[k]].Low]])

\* the swing highs: High strictly above the Highs one and two bars on each side
SwingHighs(df) ==
    LET idx == SelectSeq(Range(3, Len(df) - 2),
                 LAMBDA i : /\ df[i].High > df[i - 1].High
                            /\ df[i].High > df[i + 1].High
                            /\ df[i].High > df[i - 2].High
                            /\ df[i].High > df[i + 2].High)
    IN  AsList([k \in 1..Len(idx) |-> [date |-> df[idx[k]].Date, price |-> df[idx[k]].High]])

DateLE(a, b) == a.date <= b.date

\* the direction test of a pair of swing points: the later one is higher
\* (ascending, over swing lows) or lower (descending, over swing highs)
PairDirectedOrLevel(kind, p1, p2) ==
    IF kind = "ascending" THEN p2.price >= p1.price ELSE p2.price <= p1.price

PairDirected(kind, p1, p2) ==
    IF kind = "ascending" THEN p2.price > p1.price ELSE p2.price < p1.price

\* touches of the line through p1 and p2: the two points, and every other
\* swing point within 2% of the line's price at its date
LineTouches(swings, p1, p2) ==
    LET time_diff  == p2.date - p1.date
        price_diff == p2.price - p1.price
        \* predicted_price = p1.price + slope * days, as a fraction over time_diff
        predicted(q) == p1.price * time_diff + price_diff * (q.date - p1.date)
        near(q) == QuotLT(Abs(q.price * time_diff - predicted(q)), predicted(q),
                          LineTolerance, 1000)
    IN  2 + Cardinality({k \in 1..Len(swings) :
                /\ swings[k].date \notin {p1.date, p2.date}
                /\ near(swings[k])})

\* the lines of one direction, in the order the double loop appends them
LinesThrough(swing_points, kind) ==
    IF Len(swing_points) < 2 THEN << >>
    ELSE
        LET swings == SortStable(swing_points, DateLE)
            m      == Len(swings)
            pairs  == AsList([k \in 1..(m * m) |->
                               <<((k - 1) \div m) + 1, ((k - 1) % m) + 1>>])
            good   == SelectSeq(pairs, LAMBDA pr :
                        /\ pr[1] < pr[2]
                        /\ PairDirected(kind, swings[pr[1]], swings[pr[2]])
                        /\ swings[pr[2]].date - swings[pr[1]].date > 0
                        /\ LineTouches(swings, swings[pr[1]], swings[pr[2]]) >= 2)
        IN  AsList([k \in 1..Len(good) |->
                LET p1 == swings[good[k][1]]
                    p2 == swings[good[k][2]]
                IN  [start_date |-> p1.date, end_date |-> p2.date,
                     start_price |-> p1.price, end_price |-> p2.price,
                     slope |-> Frac(p2.price - p1.price, p2.date - p1.date),
                     touches |-> LineTouches(swings, p1, p2),
                     type |-> kind]])

TouchesGE(a, b) == a.touches >= b.touches

\* the lines found in a window df that is long enough
TrendLinesOf(df) ==
    [ascending |->
        Take(SortStable(LinesThrough(SwingLows(df), "ascending"), TouchesGE),
             MaxTrendLines),
     descending |->
        Take(SortStable(LinesThrough(SwingHighs(df), "descending"), TouchesGE),
             MaxTrendLines)]

detect_trend_lines(d, lookback_period) ==
    LET df == Tail_(d, lookback_period)
    IN  IF TooShort(df, MinBarsTrend)
        THEN [ascending |-> << >>, descending |-> << >>]
        ELSE TrendLinesOf(df)

(***************************************************************************)
(* detect_fibonacci_levels                                                 *)
(***************************************************************************)
\* the length below which detect_fibonacci_levels returns the empty result
MinBarsFib == 50

\* the retracement ratios, in per-mille, in the order of the dictionary
RetracementRatios == <<0, 236, 382, 500, 618, 786, 1000>>

\* the extension ratios beyond swing_high, in per-mille
ExtensionRatios == <<272, 414, 618, 1000, 1618>>

FarthestFrom(levels, current_price) ==
    LET dist(k) == Abs(levels[k] - current_price * 1000)
        best == CHOOSE k \in 1..Len(levels) :
                    /\ \A j \in 1..Len(levels) : dist(k) >= dist(j)
                    /\ \A j \in 1..(k - 1) : dist(j) < dist(k)
    IN  levels[best]

\* the level minimising abs(x - current_price); min() returns the first one
\* among equals.  Prices are in thousandths.
NearestTo(levels, current_price) ==
    LET dist(k) == Abs(levels[k] - current_price * 1000)
        best == CHOOSE k \in 1..Len(levels) :
                    /\ \A j \in 1..Len(levels) : dist(k) <= dist(j)
                    /\ \A j \in 1..(k - 1) : dist(j) > dist(k)
    IN  levels[best]

\* the result: every price in thousandths of the price unit
RetracementFromHigh(swing_low, swing_high, k) ==
    IF k = 1 THEN swing_low * 1000
    ELSE IF k = Len(RetracementRatios) THEN swing_high * 1000
    ELSE swing_high * 1000 - (swing_high - swing_low) * RetracementRatios[k]

\* the k-th retracement price, in thousandths: swing_low, swing_high, and
\* swing_low + (swing_high - swing_low) * ratio between them
RetracementPrice(swing_low, swing_high, k) ==
    IF k = 1 THEN swing_low * 1000
    ELSE IF k = Len(RetracementRatios) THEN swing_high * 1000
    ELSE swing_low * 1000 + (swing_high - swing_low) * RetracementRatios[k]

detect_fibonacci_levels(d, lookback_period) ==
    LET df == Tail_(d, lookback_period)
    IN  IF TooShort(df, MinBarsFib) THEN [empty |-> TRUE]
        ELSE
            LET swing_high == ColMax(df, 1, Len(df), HighOf)
                swing_low  == ColMin(df, 1, Len(df), LowOf)
                retracement ==
                    AsList([k \in 1..Len(RetracementRatios) |->
                        RetracementPrice(swing_low, swing_high, k)])
                extension ==
                    AsList([k \in 1..Len(ExtensionRatios) |->
                        swing_high * 1000 + (swing_high - swing_low) * ExtensionRatios[k]])
                current_price == df[Len(df)].Close
            IN  [empty |-> FALSE,
                 swing_high |-> swing_high, swing_low |-> swing_low,
                 retracement_levels |-> retracement,
                 extension_levels |-> extension,
                 current_price |-> current_price,
                 nearest_retracement |-> NearestTo(retracement, current_price),
                 nearest_extension |-> NearestTo(extension, current_price)]

(***************************************************************************)
(* detect_consolidation_zones                                              *)
(***************************************************************************)
\* the length below which detect_consolidation_zones returns no zone
MinBarsZones == 20

\* the rolling window of the standard deviation and the mean of Close
RollWindow == 20

\* the quantile 0.3 of the volatility ratio, in tenths
LowVolQuantile == 3

\* minimum 10 days in a group
MinGroupLen == 10

\* the bars looked at after a zone
PostBars == 5

RECURSIVE FracLess(_, _, _, _)
\* a/b < c/d for a, c >= 0 and b, d > 0, by the continued-fraction expansion
\* (no product is formed, so large operands do not overflow)
FracLess(a, b, c, d) ==
    IF a \div b # c \div d THEN a \div b < c \div d
    ELSE IF c % d = 0 THEN FALSE
    ELSE IF a % b = 0 THEN TRUE
    ELSE FracLess(d, c % d, b, a % b)

RECURSIVE SumSeq(_)
\* the sum of a list of integers (by halves, to keep the recursion shallow)
SumSeq(s) ==
    IF s = << >> THEN 0
    ELSE IF Len(s) = 1 THEN s[1]
    ELSE SumSeq(SubSeq(s, 1, Len(s) \div 2))
           + SumSeq(SubSeq(s, Len(s) \div 2 + 1, Len(s)))

\* the sum of a column over the index range a..b of df
SumCol(df, a, b, Col(_)) ==
    SumSeq(AsList([k \in 1..MaxI(b - a + 1, 0) |-> Col(df[a + k - 1])]))

\* low_vol_periods: volatility_ratio < volatility_ratio.quantile(0.3), where
\* volatility_ratio = rolling std / rolling mean of Close over 20 bars (NaN for
\* the first 19 bars).  For a positive mean the order of two ratios is the
\* order of V/S^2 with S the window's sum of Close and V = 20 * sum of squares
\* - S^2, so the test is decided without a square root.  quantile(0.3)
\* interpolates linearly between the sorted values at positions k and k+1,
\* k = floor(0.3 * (m - 1)): a ratio lies below it exactly when it is below
\* the value at k, or equals it while the quantile lies strictly above.
LowVolPeriods(df) ==
    LET n  == Len(df)
        W  == RollWindow
        S  == AsList([i \in 1..n |->
                 IF i < W THEN 0 ELSE SumCol(df, i - W + 1, i, CloseOf)])
        Q  == AsList([i \in 1..n |->
                 IF i < W THEN 0
                 ELSE SumCol(df, i - W + 1, i, LAMBDA bar : bar.Close * bar.Close)])
        V  == AsList([i \in 1..n |-> W * Q[i] - S[i] * S[i]])
        \* the bars whose ratio is a number (not NaN)
        valid == {i \in W..n : S[i] > 0}
        \* the integer part of 1024 * V/S^2 orders most pairs; equal integer
        \* parts are ordered exactly
        key == AsList([i \in 1..n |->
                 IF i \in valid THEN (V[i] * 1024) \div (S[i] * S[i]) ELSE 0])
        less(i, j) == \/ key[i] < key[j]
                      \/ /\ key[i] = key[j]
                         /\ FracLess(V[i], S[i] * S[i], V[j], S[j] * S[j])
        cntLess == AsList([i \in 1..n |->
                 IF i \in valid THEN Cardinality({j \in valid : less(j, i)}) ELSE 0])
        cntLE   == AsList([i \in 1..n |->
                 IF i \in valid THEN Cardinality({j \in valid : ~less(i, j)}) ELSE 0])
        m   == Cardinality(valid)
        pos == LowVolQuantile * (m - 1)
        k   == pos \div 10
        exact == \/ pos % 10 = 0
                 \/ \E j \in valid : cntLess[j] <= k /\ cntLE[j] > k + 1
    IN  AsList([i \in 1..n |->
            /\ i \in valid
            /\ IF exact THEN cntLE[i] <= k ELSE cntLess[i] <= k])

\* "Find start of group": walk back from bar i while the bar before is marked
GroupStart(low_vol_periods, i) ==
    CHOOSE b \in 1..i :
        /\ \A j \in b..i : low_vol_periods[j]
        /\ (b = 1 \/ ~low_vol_periods[b - 1])

GroupStepFromHere(low_vol_periods, st, i) ==
    IF low_vol_periods[i] /\ i > 1 /\ low_vol_periods[i - 1]
    THEN IF st.current_group = << >>
         THEN [groups |-> st.groups, current_group |-> <<i>>]
         ELSE [groups |-> st.groups, current_group |-> Append(st.current_group, i)]
    ELSE IF Len(st.current_group) >= MinGroupLen
         THEN [groups |-> Append(st.groups, st.current_group), current_group |-> << >>]
         ELSE [groups |-> st.groups, current_group |-> << >>]

\* the body of the grouping loop for bar i, on the loop's two lists
GroupStep(low_vol_periods, st, i) ==
    IF low_vol_periods[i] /\ i > 1 /\ low_vol_periods[i - 1]
    THEN IF st.current_group = << >>
         THEN [groups |-> st.groups,
               current_group |-> Range(GroupStart(low_vol_periods, i), i)]
         ELSE [groups |-> st.groups, current_group |-> Append(st.current_group, i)]
    ELSE IF Len(st.current_group) >= MinGroupLen
         THEN [groups |-> Append(st.groups, st.current_group), current_group |-> << >>]
         ELSE [groups |-> st.groups, current_group |-> << >>]

RECURSIVE GroupLoop(_, _, _, _)
\* the grouping loop over the bars lo..hi in order (the range is split in
\* halves to keep the recursion shallow)
GroupLoop(low_vol_periods, st, lo, hi) ==
    IF lo > hi THEN st
    ELSE IF lo = hi THEN GroupStep(low_vol_periods, st, lo)
    ELSE TheOne({GroupLoop(low_vol_periods, half, (lo + hi) \div 2 + 1, hi) :
            half \in {GroupLoop(low_vol_periods, st, lo, (lo + hi) \div 2)}})

\* the groups of consecutive low-volatility bars, as lists of bar indices:
\* the loop, and the append after it
Groups(low_vol_periods) ==
    LET st == GroupLoop(low_vol_periods, [groups |-> << >>, current_group |-> << >>],
                        1, Len(low_vol_periods))
    IN  IF Len(st.current_group) >= MinGroupLen
        THEN Append(st.groups, st.current_group)
        ELSE st.groups

\* the value stored in the zone's range_pct field: range_pct * 100
RangePctField(zone_range, support) ==
    IF support > 0 THEN Frac(100 * zone_range, support)
    ELSE Frac(-100 * zone_range, -support)

BreakoutBearishFirst(df, e, support, resistance) ==
    IF e + PostBars <= Len(df)
    THEN IF ColMin(df, e + 1, e + PostBars, CloseOf) * 100 < support * 98
         THEN "BEARISH"
         ELSE IF ColMax(df, e + 1, e + PostBars, CloseOf) * 100 > resistance * 102
         THEN "BULLISH"
         ELSE "CONSOLIDATING"
    ELSE "None"

\* breakout_direction of a zone ending at bar e (None when fewer than 5 bars follow)
BreakoutDirection(df, e, support, resistance) ==
    IF e + PostBars <= Len(df)
    THEN IF ColMax(df, e + 1, e + PostBars, CloseOf) * 100 > resistance * 102
         THEN "BULLISH"
         ELSE IF ColMin(df, e + 1, e + PostBars, CloseOf) * 100 < support * 98
         THEN "BEARISH"
         ELSE "CONSOLIDATING"
    ELSE "None"

AnyRange(zone_range, support, threshold) == TRUE

WideRange(zone_range, support, threshold) ==
    ~QuotLE(zone_range, support, threshold, 1000)

\* "if range_pct <= threshold", range_pct = (resistance - support) / support
TightRange(zone_range, support, threshold) ==
    QuotLE(zone_range, support, threshold, 1000)

\* the zones found in a window df that is long enough
ConsolidationZonesOf(df, threshold) ==
    LET groups == Groups(LowVolPeriods(df))
        zoneOf(group) ==
            LET a == group[1]
                e == group[Len(group)]
                support    == ColMin(df, a, e, LowOf)
                resistance == ColMax(df, a, e, HighOf)
            IN  [start_date |-> df[a].Date, end_date |-> df[e].Date,
                 support |-> support, resistance |-> resistance,
                 range_pct |-> RangePctField(resistance - support, support),
                 duration_days |-> Len(group),
                 volume_avg |-> Frac(SumCol(df, a, e, LAMBDA bar : bar.Volume),
                                     Len(group)),
                 breakout_direction |->
                     BreakoutDirection(df, e, support, resistance)]
        kept == SelectSeq(groups, LAMBDA group :
                    LET support    == ColMin(df, group[1], group[Len(group)], LowOf)
                        resistance == ColMax(df, group[1], group[Len(group)], HighOf)
                    IN  TightRange(resistance - support, support, threshold))
    IN  MapSeq(kept, zoneOf)

\* threshold in per-mille (30 is the default 0.03)
detect_consolidation_zones(d, lookback_period, threshold) ==
    LET df == Tail_(d, lookback_period)
    IN  IF TooShort(df, MinBarsZones) THEN << >>
        ELSE ConsolidationZonesOf(df, threshold)

(***************************************************************************)
(* detect_volume_profile                                                   *)
(***************************************************************************)
\* the bars of the volume profile
ProfileBars == 100

\* the length below which detect_volume_profile returns the empty result
MinBarsProfile == 20

\* num_bins: np.linspace(low, high, num_bins) returns num_bins boundaries
num_bins == 70

\* the value area holds 70% of the volume, in tenths
ValueAreaShare == 7

\* bins[k] (k = 0 .. num_bins - 1) times (num_bins - 1): the boundaries of
\* np.linspace(lo, hi, num_bins) are lo + k * (hi - lo) / (num_bins - 1)
BinBoundary(lo, hi, k) == (num_bins - 1) * lo + k * (hi - lo)

\* volume_at_price[i] for the loop "for i in range(len(bins) - 1)", i from 1:
\* the Volume of the bars with bins[i-1] <= Close < bins[i]
VolumeAtPrice(df, lo, hi) ==
    AsList([i \in 1..(num_bins - 1) |->
        LET mask == SelectSeq(df, LAMBDA bar :
                        /\ (num_bins - 1) * bar.Close >= BinBoundary(lo, hi, i - 1)
                        /\ (num_bins - 1) * bar.Close < BinBoundary(lo, hi, i))
        IN  SumCol(mask, 1, Len(mask), LAMBDA bar : bar.Volume)])

\* np.argmax: the first index of the maximum
ArgMax(v) ==
    CHOOSE i \in 1..Len(v) :
        /\ \A j \in 1..Len(v) : v[j] <= v[i]
        /\ \A j \in 1..(i - 1) : v[j] < v[i]

\* The value area.  The bins are taken in the order of
\* np.argsort(volume_at_price)[::-1] until the cumulative volume reaches 70% of
\* the total.  argsort's default sort is not stable, so the order among bins
\* of equal volume is any order: the bins of a volume above the volume w at
\* which the target is reached are all taken, and of the bins of volume w the
\* first cnt ones in an arbitrary order.  ValueAreas is the set of the
\* [low, high] pairs (lowest and highest bin taken, from 1) of all such orders.
ValueAreas(v) ==
    LET total == SumSeq(v)
        idx   == 1..Len(v)
        above(w) == {i \in idx : v[i] > w}
        sumAbove(w) == SumSeq(SelectSeq(v, LAMBDA x : x > w))
        class(w) == {i \in idx : v[i] = w}
        reached(c) == 10 * c >= ValueAreaShare * total
        \* the volume at which the loop breaks
        w == CHOOSE x \in {v[i] : i \in idx} :
                /\ above(x) = {} \/ ~reached(sumAbove(x))
                /\ reached(sumAbove(x) + Cardinality(class(x)) * x)
        cnt == CHOOSE c \in 1..Cardinality(class(w)) :
                /\ reached(sumAbove(w) + c * w)
                /\ c = 1 \/ ~reached(sumAbove(w) + (c - 1) * w)
        ends == IF cnt = 1 THEN {<<a, a>> : a \in class(w)}
                ELSE {<<a, b>> \in class(w) \X class(w) :
                        /\ a < b
                        /\ Cardinality({t \in class(w) : a < t /\ t < b}) >= cnt - 2}
        lowest(S)  == CHOOSE a \in S : \A b \in S : a <= b
        highest(S) == CHOOSE a \in S : \A b \in S : a >= b
    IN  {[low  |-> lowest(above(w) \cup {e[1]}),
          high |-> highest(above(w) \cup {e[2]})] : e \in ends}

\* the result of detect_volume_profile but for the value area, which depends
\* on the order of the equal-volume bins.  Boundaries are kept times
\* (num_bins - 1).  Of the statistics only the node lists are kept: the
\* standard deviation enters them by its square.
ProfileBase(df) ==
    LET lo == ColMin(df, 1, Len(df), LowOf)
        hi == ColMax(df, 1, Len(df), HighOf)
        v  == VolumeAtPrice(df, lo, hi)
        bins == AsList([k \in 1..num_bins |-> BinBoundary(lo, hi, k - 1)])
        poc_idx == ArgMax(v)
        total == SumSeq(v)
        \* (num_bins - 1) * (volume - mean), and the sum of their squares
        dev == AsList([i \in 1..Len(v) |-> (num_bins - 1) * v[i] - total])
        devsq == SumSeq(AsList([i \in 1..Len(v) |-> dev[i] * dev[i]]))
        beyond(i) == FracLess(devsq, num_bins - 1, dev[i] * dev[i], 1)
    IN  [empty |-> FALSE,
         price_range |-> hi - lo,
         poc_price |-> Frac(bins[poc_idx] + bins[poc_idx + 1], 2 * (num_bins - 1)),
         poc_volume |-> v[poc_idx],
         high_volume_nodes |->
             SelectSeq(Range(1, Len(v)), LAMBDA i : dev[i] > 0 /\ beyond(i)),
         low_volume_nodes |->
             SelectSeq(Range(1, Len(v)), LAMBDA i : dev[i] < 0 /\ beyond(i)),
         single_prints |->
             SelectSeq(Range(1, Len(v)), LAMBDA i : 10 * (num_bins - 1) * v[i] < 3 * total),
         volume_distribution |-> v,
         price_bins |-> bins,
         total_volume |-> total]

ValueAreaFieldsLowerEdge(base, area) ==
    [value_area_high |-> base.price_bins[area.high],
     value_area_low |-> base.price_bins[area.low],
     value_area_percentage |->
         IF base.price_range = 0 THEN [nan |-> TRUE, value |-> 0]
         ELSE [nan |-> FALSE,
               value |-> Frac((area.high - area.low) * 100, num_bins - 1)]]

\* the value area fields for one element of ValueAreas
ValueAreaFields(base, area) ==
    [value_area_high |-> base.price_bins[area.high + 1],
     value_area_low |-> base.price_bins[area.low],
     \* (value_area_high - value_area_low) / price_range * 100: 0/0 is nan
     value_area_percentage |->
         IF base.price_range = 0 THEN [nan |-> TRUE, value |-> 0]
         ELSE [nan |-> FALSE,
               value |-> Frac((area.high + 1 - area.low) * 100, num_bins - 1)]]

\* the results detect_volume_profile can return, as pairs [profile, area]
detect_volume_profile(d) ==
    LET df == Tail_(d, ProfileBars)
    IN  IF TooShort(df, MinBarsProfile) THEN {[empty |-> TRUE]}
        ELSE LET base == ProfileBase(df)
             IN  {[empty |-> FALSE, profile |-> base, area |-> ValueAreaFields(base, area)] :
                     area \in ValueAreas(base.volume_distribution)}

(***************************************************************************)
(* detect_support_resistance_patterns and get_trading_signal                *)
(***************************************************************************)
\* the default arguments: lookback_period=100, threshold=0.02 (per-mille),
\* min_touches=2, and threshold=0.03 of detect_consolidation_zones
DefaultLookback == 100

DefaultThreshold == 20

DefaultMinTouches == 2

DefaultZoneThreshold == 30

\* "within 2%" of a level, in per-mille
NearTolerance == 20

\* numpy's float64 "x / y < tn/td" for any sign of x (td > 0): a zero divisor
\* gives -inf, inf or nan
SignedQuotLT(x, y, tn, td) ==
    IF y > 0 THEN x * td < tn * y
    ELSE IF y < 0 THEN x * td > tn * y
    ELSE x < 0

\* min(levels, key=lambda x: abs(x['price'] - current_price)): the first level
\* at the least distance
Nearest(levels, current_price) ==
    LET dist(k) == [n |-> Abs(levels[k].price.n - current_price * levels[k].price.d),
                    d |-> levels[k].price.d]
        le(a, b) == a.n * b.d <= b.n * a.d
        best == CHOOSE k \in 1..Len(levels) :
                    /\ \A j \in 1..Len(levels) : le(dist(k), dist(j))
                    /\ \A j \in 1..(k - 1) : ~le(dist(j), dist(k))
    IN  levels[best]

NearLevelWithinFive(level, current_price) ==
    QuotLT(Abs(current_price * level.price.d - level.price.n), level.price.n,
           50, 1000)

\* abs(current_price - level.price) / level.price < 0.02
NearLevel(level, current_price) ==
    QuotLT(Abs(current_price * level.price.d - level.price.n), level.price.n,
           NearTolerance, 1000)

\* a Support Bounce or Resistance Test pattern; score is strength / 3
LevelPattern(name, signal, level) ==
    [pattern |-> name, signal |-> signal,
     confidence |-> IF level.strength > 20 THEN "HIGH" ELSE "MEDIUM",
     score |-> Frac(level.strength, 30),
     price |-> level.price]

PatternsOfAnyZone(sr_data, consolidation_zones) ==
    LET current_price == sr_data.current_price
        bounce ==
            IF sr_data.support # << >>
               /\ NearLevel(Nearest(sr_data.support, current_price), current_price)
            THEN <<LevelPattern("Support Bounce", "BULLISH",
                                Nearest(sr_data.support, current_price))>>
            ELSE << >>
        test ==
            IF sr_data.resistance # << >>
               /\ NearLevel(Nearest(sr_data.resistance, current_price), current_price)
            THEN <<LevelPattern("Resistance Test", "BEARISH",
                                Nearest(sr_data.resistance, current_price))>>
            ELSE << >>
        range ==
            IF \E k \in 1..Len(consolidation_zones) :
                   consolidation_zones[k].breakout_direction = "CONSOLIDATING"
            THEN <<[pattern |-> "Range Bound Trading", signal |-> "NEUTRAL",
                    confidence |-> "MEDIUM", score |-> Frac(7, 10),
                    price |-> Frac(consolidation_zones[Len(consolidation_zones)].support, 1)]>>
            ELSE << >>
    IN  bounce \o test \o range

\* the patterns found from the levels and the zones of the two detectors
PatternsOf(sr_data, consolidation_zones) ==
    LET current_price == sr_data.current_price
        bounce ==
            IF sr_data.support # << >>
               /\ NearLevel(Nearest(sr_data.support, current_price), current_price)
            THEN <<LevelPattern("Support Bounce", "BULLISH",
                                Nearest(sr_data.support, current_price))>>
            ELSE << >>
        test ==
            IF sr_data.resistance # << >>
               /\ NearLevel(Nearest(sr_data.resistance, current_price), current_price)
            THEN <<LevelPattern("Resistance Test", "BEARISH",
                                Nearest(sr_data.resistance, current_price))>>
            ELSE << >>
        range ==
            IF consolidation_zones # << >>
               /\ consolidation_zones[Len(consolidation_zones)].breakout_direction
                    = "CONSOLIDATING"
            THEN <<[pattern |-> "Range Bound Trading", signal |-> "NEUTRAL",
                    confidence |-> "MEDIUM", score |-> Frac(7, 10),
                    price |-> Frac(consolidation_zones[Len(consolidation_zones)].support, 1)]>>
            ELSE << >>
    IN  bounce \o test \o range

\* the outcome of detect_support_resistance_patterns: the list of patterns,
\* or the exception raised by sr_data['current_price']
detect_support_resistance_patterns(d) ==
    TheOne({IF "current_price" \notin DOMAIN sr_data
            THEN [raised |-> "KeyError", patterns |-> << >>]
            ELSE [raised |-> "None",
                  patterns |-> TheOne({PatternsOf(sr_data, consolidation_zones) :
                      consolidation_zones \in
                          {detect_consolidation_zones(d, DefaultLookback,
                                                      DefaultZoneThreshold)}})] :
        sr_data \in {detect_support_resistance(d, DefaultLookback, DefaultThreshold,
                                               DefaultMinTouches)}})

\* a rationale note, kept as its kind, the level's price and its touches
Note(kind, level) ==
    [note |-> kind, price |-> level.price, touches |-> level.touches]

SupportStepWithinOne(nearest_support, current_price, score, signals) ==
    LET support_within(pct) ==
            SignedQuotLT((current_price * nearest_support.price.d
                            - nearest_support.price.n) * 100,
                         current_price * nearest_support.price.d, pct, 1)
    IN  IF support_within(1)
        THEN [score |-> score + 5,
              signals |-> Append(signals, Note("Near strong support", nearest_support))]
        ELSE IF support_within(5)
        THEN [score |-> score,
              signals |-> Append(signals, Note("Approaching support", nearest_support))]
        ELSE [score |-> score, signals |-> signals]

\* the support block: support_distance = (current_price - price) / current_price * 100
SupportStep(nearest_support, current_price, score, signals) ==
    LET support_within(pct) ==
            SignedQuotLT((current_price * nearest_support.price.d
                            - nearest_support.price.n) * 100,
                         current_price * nearest_support.price.d, pct, 1)
    IN  IF support_within(2)
        THEN [score |-> score + 5,
              signals |-> Append(signals, Note("Near strong support", nearest_support))]
        ELSE IF support_within(5)
        THEN [score |-> score,
              signals |-> Append(signals, Note("Approaching support", nearest_support))]
        ELSE [score |-> score, signals |-> signals]

\* the resistance block: resistance_distance = (price - current_price) / current_price * 100
ResistanceStep(nearest_resistance, current_price, score, signals) ==
    LET resistance_within(pct) ==
            SignedQuotLT((nearest_resistance.price.n
                            - current_price * nearest_resistance.price.d) * 100,
                         current_price * nearest_resistance.price.d, pct, 1)
    IN  IF resistance_within(2)
        THEN [score |-> score - 5,
              signals |-> Append(signals,
                                 Note("Near strong resistance", nearest_resistance))]
        ELSE IF resistance_within(5)
        THEN [score |-> score + 2,
              signals |-> Append(signals, Note("Room to resistance", nearest_resistance))]
        ELSE [score |-> score, signals |-> signals]

\* the two blocks in turn, from the score and the notes of the earlier steps
SignalOf(sr_data, score, signals) ==
    LET current_price == sr_data.current_price
        afterSupport ==
            IF sr_data.support = << >> THEN [score |-> score, signals |-> signals]
            ELSE SupportStep(Nearest(sr_data.support, current_price), current_price,
                             score, signals)
    IN  IF sr_data.resistance = << >> THEN afterSupport
        ELSE ResistanceStep(Nearest(sr_data.resistance, current_price), current_price,
                            afterSupport.score, afterSupport.signals)

\* the support/resistance step of get_trading_signal: the new score and
\* notes, or the exception raised by sr_data['current_price']
get_trading_signal(d, score, signals) ==
    TheOne({IF "current_price" \notin DOMAIN sr_data
            THEN [raised |-> "KeyError", score |-> score, signals |-> signals]
            ELSE [raised |-> "None",
                  score |-> SignalOf(sr_data, score, signals).score,
                  signals |-> SignalOf(sr_data, score, signals).signals] :
        sr_data \in {detect_support_resistance(d, DefaultLookback, DefaultThreshold,
                                               DefaultMinTouches)}})

(***************************************************************************)
(* The series the analyzer holds after fetch_data: daily bars with         *)
(* strictly increasing dates, High >= Close >= Low.  They are drawn from a *)
(* family of shapes: a shape is a list of segments, each a V-shaped swing  *)
(* or a quiet stretch, cut to a length and ended by one of four last bars. *)
(***************************************************************************)
\* the longest series drawn (the detectors look at the last 100 bars at most)
MaxBars == 101

\* the price the shapes start from
BasePrice == 100

\* trading days: five bars a week, dates are day numbers
DateOf(i) == i + 2 * ((i - 1) \div 5)

\* one bar of the series
Bar(i, close, up, down, volume) ==
    [Date |-> DateOf(i), High |-> close + up, Low |-> close - down,
     Close |-> close, Volume |-> volume]

\* closes of a V-shaped swing of 2h bars: from lo + h*s down to lo and up again
VCloses(lo, s, h) == AsList([k \in 1..(2 * h) |-> lo + s * Abs(h - (k - 1))])

\* closes of a quiet stretch of len bars at c
QuietCloses(c, len) == AsList([k \in 1..len |-> c])

RECURSIVE Flatten(_)
Flatten(ss) == IF ss = << >> THEN << >> ELSE Head(ss) \o Flatten(Tail(ss))

B == BasePrice

\* the shapes, as closes with the half-spread of each bar
ShapeCloses(p) ==
    CASE p = "stairs" ->
           Flatten(<<VCloses(B, 2, 6), VCloses(B, 2, 6), VCloses(B + 10, 2, 6),
                     VCloses(B, 2, 6), VCloses(B + 20, 2, 6), VCloses(B + 20, 2, 6),
                     VCloses(B + 10, 2, 6), VCloses(B + 20, 2, 6), VCloses(B + 20, 2, 6)>>)
      [] p = "ladder" ->
           Flatten(<<VCloses(B, 3, 6), VCloses(B + 10, 3, 6), VCloses(B + 21, 3, 6),
                     VCloses(B + 33, 3, 6), VCloses(B + 46, 3, 6), VCloses(B + 60, 3, 6),
                     VCloses(B + 46, 3, 6), VCloses(B + 33, 3, 6), VCloses(B + 21, 3, 6)>>)
      [] p = "range" ->
           Flatten(<<VCloses(B, 4, 4), VCloses(B, 3, 4), VCloses(B, 2, 4),
                     QuietCloses(B + 4, 30),
                     VCloses(B, 4, 4), VCloses(B, 5, 4), VCloses(B, 4, 4),
                     VCloses(B, 5, 4), VCloses(B, 4, 4), VCloses(B, 5, 4)>>)
      [] p = "flat" -> QuietCloses(B, MaxBars)

Shapes == {"stairs", "ladder", "range", "flat"}

\* the half-spread of the bars of a shape (High - Close and Close - Low)
ShapeSpread(p) == IF p = "flat" THEN 0 ELSE 1

Tails == {"asis", "top", "crash", "spike"}

\* the series of shape p cut to n bars and ended by tail t
Series(p, n, t) ==
    LET closes == Take(ShapeCloses(p), n)
        sp     == ShapeSpread(p)
        base   == AsList([i \in 1..Len(closes) |->
                     Bar(i, closes[i], sp, sp, 1 + (i % 4))])
        m      == Len(base)
        hi     == ColMax(base, 1, m, HighOf)
        lo     == ColMin(base, 1, m, LowOf)
    IN  IF m = 0 \/ t = "asis" THEN base
        ELSE IF t = "top" THEN
            \* the last bar closes at its High, the highest High of the series
            [base EXCEPT ![m] = [@ EXCEPT !.High = hi, !.Close = hi]]
        ELSE IF t = "crash" THEN
            \* the last bar closes far below every earlier Low
            [base EXCEPT ![m] = [@ EXCEPT !.Low = lo \div 2, !.Close = lo \div 2]]
        ELSE
            \* the last bar closes far above every earlier High
            [base EXCEPT ![m] = [@ EXCEPT !.High = hi * 2, !.Close = hi * 2]]

Lengths == {19, 20, 29, 30, 49, 50, MaxBars}

\* the series the analyzer can hold
ShapedFamily == {Series(p, n, t) : p \in Shapes, n \in Lengths, t \in Tails}

\* the length of the series with two Lows at about 100 and three Highs at
\* about 150
TwinBars == 120

\* the bars (from 1) of the two Lows: both well inside the last 100 bars,
\* both before them, both among the last 5 bars, one before and one inside
TwinLows == {<<50, 80>>, <<10, 15>>, <<117, 119>>, <<10, 60>>}

\* the bars of the three Highs: all inside the last 100 bars, one before
\* them, two of them 3 bars apart (the lower of the two is no pivot)
TwinHighs == {<<40, 70, 90>>, <<5, 70, 90>>, <<40, 43, 90>>}

\* a series of TwinBars bars closing at 130 with Highs at 140 and Lows at 120,
\* but for Lows of 100 and 101 at the bars lows and Highs of 150, 151 and 150
\* at the bars highs.  When crowded, the other Lows of the last 100 bars lie
\* on five steps of 20 bars at 110, 114, 118, 122 and 126.
TwinSeries(lows, highs, crowded) ==
    AsList([i \in 1..TwinBars |->
        [Date |-> DateOf(i),
         High |-> IF i = highs[2] THEN 151
                  ELSE IF i \in {highs[1], highs[3]} THEN 150
                  ELSE 140,
         Low |-> IF i = lows[1] THEN 100
                 ELSE IF i = lows[2] THEN 101
                 ELSE IF crowded
                 THEN 110 + 4 * MinI(MaxI((i - (TwinBars - 99)) \div 20, 0), 4)
                 ELSE 120,
         Close |-> 130,
         Volume |-> 1 + (i % 4)]])

TwinFamily ==
    {TwinSeries(l, h, FALSE) : l \in TwinLows, h \in TwinHighs}
        \cup {TwinSeries(<<50, 80>>, <<40, 70, 90>>, TRUE)}

\* what follows the quiet stretch of a zone series
ZonePosts == {"up", "down", "both", "calm", "late"}

\* the numbers of bars that follow it
ZonePostLens == {4, 5, 6, 7}

\* the closes after the quiet stretch: all far above it, all far below it,
\* below and above in turn, all close to it, and close to it for 5 bars and
\* far above it from the 6th on
PostCloses(post, len) ==
    AsList([k \in 1..len |->
        CASE post = "up"   -> 110
          [] post = "down" -> 98
          [] post = "both" -> IF k % 2 = 1 THEN 98 ELSE 110
          [] post = "calm" -> IF k % 2 = 1 THEN 105 ELSE 103
          [] post = "late" -> IF k > 5 THEN 110 ELSE IF k % 2 = 1 THEN 105 ELSE 103])

\* 29 bars of swings, a quiet stretch of 34 bars closing at 104 (the last 15
\* of them have a rolling deviation of 0), then the bars of PostCloses
ZoneSeries(post, len) ==
    LET closes == Take(Flatten(<<VCloses(100, 2, 6), VCloses(100, 2, 6),
                                 VCloses(101, 2, 6)>>), 29)
                    \o QuietCloses(104, 34) \o PostCloses(post, len)
    IN  AsList([i \in 1..Len(closes) |-> Bar(i, closes[i], 1, 1, 1 + (i % 4))])

ZoneFamily == {ZoneSeries(post, len) : post \in ZonePosts, len \in ZonePostLens}

\* the length of the series with three swing lows and a steep line
SteepBars == 40

\* the swing lows (bar, Low) of a steep series.  "negative": the line from
\* 10 at day 26 to 100 at day 31 rises by 18 a day and is at -368 on day 5,
\* where the first swing low is at 60.  "zero": the line from 50 at day 10
\* to 100 at day 15 rises by 10 a day and is at 0 on day 5.
SteepLows(kind) ==
    IF kind = "negative" THEN {<<5, 60>>, <<20, 10>>, <<23, 100>>}
    ELSE {<<5, 60>>, <<8, 50>>, <<11, 100>>}

\* a series of SteepBars bars closing at 200 with Highs at 201 and Lows at
\* 199, but for the Lows of SteepLows
SteepSeries(kind) ==
    AsList([i \in 1..SteepBars |->
        [Date |-> DateOf(i),
         High |-> 201,
         Low |-> IF \E p \in SteepLows(kind) : p[1] = i
                 THEN (CHOOSE p \in SteepLows(kind) : p[1] = i)[2]
                 ELSE 199,
         Close |-> 200,
         Volume |-> 1 + (i % 4)]])

SteepFamily == {SteepSeries(kind) : kind \in {"negative", "zero"}}

\* the last n closes of six V-shaped swings of 12 bars
SwingCloses(n) ==
    Tail_(Flatten(<<VCloses(100, 2, 6), VCloses(100, 2, 6), VCloses(100, 2, 6),
                    VCloses(100, 2, 6), VCloses(100, 2, 6), VCloses(101, 2, 6)>>), n)

\* 100 bars with two quiet stretches: 13 bars of swings, 29 bars closing at
\* 105, one at 104, 24 bars of swings and 33 bars closing at 105 up to the
\* last bar (the low-volatility bars are 33..42 and 87..100)
RunsSeries ==
    LET closes == SwingCloses(13) \o QuietCloses(105, 29) \o <<104>>
                    \o SwingCloses(24) \o QuietCloses(105, 33)
    IN  AsList([i \in 1..Len(closes) |-> Bar(i, closes[i], 1, 1, 1 + (i % 4))])

\* what lies between the two quiet stretches of a two-zone series: 5 bars
\* closing near the first stretch and 8 bars of swings, or 13 bars of swings
\* that leave it at once
MidCloses(mid) ==
    IF mid = "calm" THEN <<107, 103, 107, 103, 107>> \o SwingCloses(8)
    ELSE SwingCloses(13)

\* the closes after the second quiet stretch: PostCloses, but for calm bars,
\* which close at 107 and 103 in turn
LastCloses(post, len) ==
    IF post = "calm" THEN Take(<<107, 103, 107, 103, 107>>, len)
    ELSE PostCloses(post, len)

\* what follows the second quiet stretch
TwoZonePosts == {<<"up", 5>>, <<"down", 5>>, <<"calm", 5>>, <<"calm", 4>>}

\* 20 bars of swings, 29 bars closing at 105, the 13 bars of MidCloses, 33
\* bars closing at 105 and the bars of LastCloses (the low-volatility bars are
\* 40..49 and 82..95)
TwoZoneSeries(mid, post) ==
    LET closes == SwingCloses(20) \o QuietCloses(105, 29) \o MidCloses(mid)
                    \o QuietCloses(105, 33) \o LastCloses(post[1], post[2])
    IN  AsList([i \in 1..Len(closes) |-> Bar(i, closes[i], 1, 1, 1 + (i % 4))])

TwoZoneFamily ==
    {TwoZoneSeries(mid, post) : mid \in {"calm", "swing"}, post \in TwoZonePosts}

\* the length of the series closing just under 2% below its resistance
EdgeBars == 30

\* a series of EdgeBars bars closing at 1000 with Lows at 999 and Highs at
\* 1001, but for Highs of 1020, 1020 and 1021 at bars 8, 15 and 22: every bar
\* that can be a pivot has one of the three within 5 bars, so the only
\* resistance is their mean 1020 1/3, which is 1.99% of itself and 2.03% of
\* the Close above the Close
EdgeSeries ==
    AsList([i \in 1..EdgeBars |->
        [Date |-> DateOf(i),
         High |-> IF i \in {8, 15} THEN 1020 ELSE IF i = 22 THEN 1021 ELSE 1001,
         Low |-> 999,
         Close |-> 1000,
         Volume |-> 1 + (i % 4)]])

\* the length of the series with six well-tested supports
StepBars == 100

\* a series of StepBars bars closing at 130 with Highs at 140 whose Lows rise
\* by steps: 15 bars each at 100, 104, 108, 112 and 116, then 120 to the end
StepSeries ==
    AsList([i \in 1..StepBars |->
        [Date |-> DateOf(i),
         High |-> 140,
         Low |-> 100 + 4 * MinI((i - 1) \div 15, 5),
         Close |-> 130,
         Volume |-> 1 + (i % 4)]])

\* the length of the series with a Low between two supports
SharedBars == 41

\* a series of SharedBars bars closing at 2050 with Highs at 2060 and Lows at
\* 2050, but for Lows of 1980, 1980, 1981, 2020 and 2020 at bars 8, 15, 22, 29
\* and 36 (the pivots: every bar that can be one has one of them within 5
\* bars) and a Low of 2000 at bar 10.  The supports are 1980 1/3 and 2020,
\* 2.003% apart, and 2000 is within 1% of both.
SharedSeries ==
    AsList([i \in 1..SharedBars |->
        [Date |-> DateOf(i),
         High |-> 2060,
         Low |-> IF i \in {8, 15} THEN 1980
                 ELSE IF i = 22 THEN 1981
                 ELSE IF i \in {29, 36} THEN 2020
                 ELSE IF i = 10 THEN 2000
                 ELSE 2050,
         Close |-> 2050,
         Volume |-> 1 + (i % 4)]])

\* 20 bars of Volume 1 with Highs at 140 and Lows at 90, closing at 100, 110,
\* 120 and 130 in turn: four bins of the volume profile hold a volume of 5
\* each, and three of them hold 70% of the total
TieSeries ==
    AsList([i \in 1..20 |->
        [Date |-> DateOf(i), High |-> 140, Low |-> 90,
         Close |-> 100 + 10 * (i % 4), Volume |-> 1]])

SeriesFamily ==
    ShapedFamily \cup TwinFamily \cup ZoneFamily \cup SteepFamily \cup {RunsSeries}
        \cup TwoZoneFamily \cup {EdgeSeries, StepSeries, SharedSeries, TieSeries}

(***************************************************************************)
(* The analyzer.  data is self.data; last is the call in progress: the     *)
(* method, its arguments and the value it returns (or the exception it     *)
(* raises), handed to the caller by Return.                                *)
(***************************************************************************)
Idle == [op |-> "idle"]

\* the arguments detect_support_resistance is called with
SRArguments ==
    {[lookback_period |-> DefaultLookback, threshold |-> DefaultThreshold,
      min_touches |-> DefaultMinTouches],
     [lookback_period |-> DefaultLookback, threshold |-> DefaultThreshold,
      min_touches |-> 1],
     [lookback_period |-> DefaultLookback, threshold |-> 50, min_touches |-> 3],
     [lookback_period |-> DefaultLookback, threshold |-> 0, min_touches |-> 1],
     [lookback_period |-> 25, threshold |-> DefaultThreshold,
      min_touches |-> DefaultMinTouches]}

\* the lookback periods passed to the other detectors
Lookbacks == {DefaultLookback, 25}

\* the longest pivot list merge_levels is applied to on its own
MaxMergeLen == 3

\* pivot candidate lists as detect_support_resistance hands them to
\* merge_levels: the first pivots, in date order, of the default window
MergeInputs(d) ==
    LET df == Tail_(d, DefaultLookback)
    IN  IF TooShort(df, MinBarsSR) THEN {<< >>}
        ELSE {Take(PivotLows(df), k) : k \in 0..MaxMergeLen}
               \cup {Take(PivotHighs(df), k) : k \in 0..MaxMergeLen}

\* the merge thresholds, in per-mille
MergeThresholds == {0, DefaultThreshold}

\* the score get_trading_signal has accumulated before its support/resistance step
ScoreSeeds == {0, 10}

SelfDataRebound(d, df) == df

\* self.data after a detector has run on df, the tail of it the detector
\* took: the detectors only read df and never assign self.data
SelfData(d, df) == d

Init ==
    /\ data \in SeriesFamily
    /\ last = Idle

DetectSupportResistance ==
    /\ last = Idle
    /\ \E a \in SRArguments :
        /\ last' = [op |-> "detect_support_resistance", args |-> a,
                    ret |-> detect_support_resistance(data, a.lookback_period,
                                                      a.threshold, a.min_touches)]
        /\ data' = SelfData(data, Tail_(data, a.lookback_period))

DetectTrendLines ==
    /\ last = Idle
    /\ \E lb \in Lookbacks :
        /\ last' = [op |-> "detect_trend_lines", args |-> [lookback_period |-> lb],
                    ret |-> detect_trend_lines(data, lb)]
        /\ data' = SelfData(data, Tail_(data, lb))

DetectConsolidationZones ==
    /\ last = Idle
    /\ \E lb \in Lookbacks :
        /\ last' = [op |-> "detect_consolidation_zones",
                    args |-> [lookback_period |-> lb, threshold |-> DefaultZoneThreshold],
                    ret |-> detect_consolidation_zones(data, lb, DefaultZoneThreshold)]
        /\ data' = SelfData(data, Tail_(data, lb))

DetectFibonacciLevels ==
    /\ last = Idle
    /\ \E lb \in Lookbacks :
        /\ last' = [op |-> "detect_fibonacci_levels", args |-> [lookback_period |-> lb],
                    ret |-> detect_fibonacci_levels(data, lb)]
        /\ data' = SelfData(data, Tail_(data, lb))

DetectVolumeProfile ==
    /\ last = Idle
    /\ \E r \in detect_volume_profile(data) :
        last' = [op |-> "detect_volume_profile", args |-> << >>, ret |-> r]
    /\ data' = SelfData(data, Tail_(data, ProfileBars))

DetectSupportResistancePatterns ==
    /\ last = Idle
    /\ last' = [op |-> "detect_support_resistance_patterns", args |-> << >>,
                ret |-> detect_support_resistance_patterns(data)]
    /\ data' = SelfData(data, Tail_(data, DefaultLookback))

GetTradingSignal ==
    /\ last = Idle
    /\ \E seed \in ScoreSeeds :
        last' = [op |-> "get_trading_signal", args |-> [score |-> seed],
                 ret |-> get_trading_signal(data, seed, << >>)]
    /\ data' = SelfData(data, Tail_(data, DefaultLookback))

\* the nested merge_levels on a pivot candidate list
MergeLevels ==
    /\ last = Idle
    /\ \E levels \in MergeInputs(data), threshold_pct \in MergeThresholds :
        last' = [op |-> "merge_levels",
                 args |-> [levels |-> levels, threshold_pct |-> threshold_pct],
                 ret |-> merge_levels(levels, threshold_pct)]
    /\ UNCHANGED data

\* the call returns to its caller
Return ==
    /\ last # Idle
    /\ last' = Idle
    /\ UNCHANGED data

Next ==
    \/ DetectSupportResistance
    \/ DetectTrendLines
    \/ DetectConsolidationZones
    \/ DetectFibonacciLevels
    \/ DetectVolumeProfile
    \/ DetectSupportResistancePatterns
    \/ GetTradingSignal
    \/ MergeLevels
    \/ Return

Spec == Init /\ [][Next]_vars

(***************************************************************************)
(* Properties                                                              *)
(***************************************************************************)
\* the result of detect_support_resistance with its default arguments
SRDefault ==
    detect_support_resistance(data, DefaultLookback, DefaultThreshold, DefaultMinTouches)

\* |close - level.price| / close * 100 < pct, for a positive close
WithinPct(level, close, pct) ==
    Abs(close * level.price.d - level.price.n) * 100 < pct * close * level.price.d

HasNote(signals, kind) == \E k \in 1..Len(signals) : signals[k].note = kind

\* the score change the resistance notes account for
ResistanceDelta(signals) ==
    IF HasNote(signals, "Near strong resistance") THEN -5
    ELSE IF HasNote(signals, "Room to resistance") THEN 2
    ELSE 0

\* the score change the support notes account for
SupportDelta(signals) ==
    IF HasNote(signals, "Near strong support") THEN 5 ELSE 0

VolumeOf(bar) == bar.Volume

\* C1: the per-bin volumes of a volume profile add up to the total Volume of
\* the last 100 bars, bars closing at the window's maximum High included.
C1_VolumeConserved ==
    (last.op = "detect_volume_profile" /\ ~last.ret.empty) =>
        SumSeq(last.ret.profile.volume_distribution)
            = SumCol(Tail_(data, 100), 1, Len(Tail_(data, 100)), VolumeOf)

\* C2: detect_support_resistance_patterns and the support/resistance step of
\* get_trading_signal complete without raising for every series; with fewer
\* than 20 bars they emit no level-based pattern and change no score.
C2_TotalOnShortSeries ==
    /\ last.op = "detect_support_resistance_patterns" =>
        /\ last.ret.raised = "None"
        /\ Len(data) < 20 =>
             \A k \in 1..Len(last.ret.patterns) :
                 last.ret.patterns[k].pattern \notin {"Support Bounce", "Resistance Test"}
    /\ last.op = "get_trading_signal" =>
        /\ last.ret.raised = "None"
        /\ Len(data) < 20 =>
             last.ret.score = last.args.score /\ last.ret.signals = << >>

\* C3: the score gains 5 with the near-support note exactly when Close is
\* within 2% of the nearest support; within 5% but not 2% only the advisory
\* note is added; farther than 5% on either side of the level, support adds
\* no note and changes no score.
C3_SupportSide ==
    (last.op = "get_trading_signal" /\ last.ret.raised = "None") =>
        LET sr_data == SRDefault
            close   == sr_data.current_price
            nearest == Nearest(sr_data.support, close)
            near    == WithinPct(nearest, close, 2)
            signals == last.ret.signals
        IN  sr_data.support # << >> =>
              /\ HasNote(signals, "Near strong support") <=> near
              /\ HasNote(signals, "Approaching support")
                   <=> (WithinPct(nearest, close, 5) /\ ~near)
              /\ last.ret.score - last.args.score - ResistanceDelta(signals)
                   = IF near THEN 5 ELSE 0

\* C4: the score loses 5 with the cautionary note exactly when Close is
\* within 2% of the nearest resistance; it gains 2 with the opportunity note
\* exactly when within 5% but not 2%; farther than 5% on either side of the
\* level, resistance adds no note and changes no score.
C4_ResistanceSide ==
    (last.op = "get_trading_signal" /\ last.ret.raised = "None") =>
        LET sr_data == SRDefault
            close   == sr_data.current_price
            nearest == Nearest(sr_data.resistance, close)
            near    == WithinPct(nearest, close, 2)
            room    == WithinPct(nearest, close, 5) /\ ~near
            signals == last.ret.signals
        IN  sr_data.resistance # << >> =>
              /\ HasNote(signals, "Near strong resistance") <=> near
              /\ HasNote(signals, "Room to resistance") <=> room
              /\ last.ret.score - last.args.score - SupportDelta(signals)
                   = IF near THEN -5 ELSE IF room THEN 2 ELSE 0

\* C5 as stated: every zone's range_pct field is at most the threshold the
\* call was given (0.03 by default) and its duration_days is at least 10.
C5_FieldWithinThreshold ==
    last.op = "detect_consolidation_zones" =>
        \A k \in 1..Len(last.ret) :
            /\ last.ret[k].range_pct.n * 1000
                 <= last.args.threshold * last.ret[k].range_pct.d
            /\ last.ret[k].duration_days >= 10

\* C5: every zone's range_pct field, which holds the range in percent, is at
\* most 100 times the threshold the call was given (3 for the default 0.03),
\* and its duration_days is at least 10.
C5_PercentWithinThreshold ==
    last.op = "detect_consolidation_zones" =>
        \A k \in 1..Len(last.ret) :
            /\ last.ret[k].range_pct.n * 1000
                 <= 100 * last.args.threshold * last.ret[k].range_pct.d
            /\ last.ret[k].duration_days >= 10

\* a zone is returned whose range_pct field exceeds the threshold itself
C5_ZoneFound ==
    /\ last.op = "detect_consolidation_zones"
    /\ \E k \in 1..Len(last.ret) :
        last.ret[k].range_pct.n * 1000 > last.args.threshold * last.ret[k].range_pct.d

\* C6 as stated: the seven retracement prices of every non-empty result are
\* strictly increasing, a window with maximum High equal to minimum Low included.
C6_AlwaysStrictlyIncreasing ==
    (last.op = "detect_fibonacci_levels" /\ ~last.ret.empty) =>
        \A k \in 1..(Len(last.ret.retracement_levels) - 1) :
            last.ret.retracement_levels[k] < last.ret.retracement_levels[k + 1]

\* C6: the seven retracement prices are strictly increasing when the window's
\* maximum High is above its minimum Low, and all equal to that one price
\* when the two are equal.
C6_IncreasingUnlessFlat ==
    (last.op = "detect_fibonacci_levels" /\ ~last.ret.empty) =>
        /\ Len(last.ret.retracement_levels) = 7
        /\ last.ret.swing_high > last.ret.swing_low =>
             \A k \in 1..6 :
                 last.ret.retracement_levels[k] < last.ret.retracement_levels[k + 1]
        /\ last.ret.swing_high = last.ret.swing_low =>
             \A k \in 1..7 :
                 last.ret.retracement_levels[k] = 1000 * last.ret.swing_low

\* retracement levels have been computed for a window of one single price
C6_FlatWindow ==
    /\ last.op = "detect_fibonacci_levels"
    /\ ~last.ret.empty
    /\ last.ret.swing_high = last.ret.swing_low

\* C7: for every series and every choice of arguments, the support list and
\* the resistance list are each in non-increasing order of strength, hold at
\* most 5 levels, and hold only levels with at least min_touches touches.
C7_LevelsSortedCappedTouched ==
    last.op = "detect_support_resistance" =>
        \A levels \in {last.ret.support, last.ret.resistance} :
            /\ \A k \in 1..(Len(levels) - 1) :
                 levels[k].strength >= levels[k + 1].strength
            /\ Len(levels) <= 5
            /\ \A k \in 1..Len(levels) : levels[k].touches >= last.args.min_touches

\* a list of 5 levels is returned, not all of one strength
C7_FullList ==
    /\ last.op = "detect_support_resistance"
    /\ \E levels \in {last.ret.support, last.ret.resistance} :
        /\ Len(levels) = 5
        /\ levels[1].strength > levels[5].strength

\* the line's start and end are two of the given swing points
BuiltFrom(line, swings) ==
    \E a, b \in 1..Len(swings) :
        /\ swings[a].date = line.start_date /\ swings[a].price = line.start_price
        /\ swings[b].date = line.end_date /\ swings[b].price = line.end_price

\* C8: every ascending line is built from two swing lows, has a positive
\* slope and type 'ascending'; every descending line is built from two swing
\* highs, has a negative slope and type 'descending'; no line has slope 0.
C8_DirectionMatchesSlope ==
    last.op = "detect_trend_lines" =>
        LET df == Tail_(data, last.args.lookback_period)
        IN  /\ \A k \in 1..Len(last.ret.ascending) :
                 /\ last.ret.ascending[k].type = "ascending"
                 /\ last.ret.ascending[k].slope.n > 0
                 /\ BuiltFrom(last.ret.ascending[k], SwingLows(df))
            /\ \A k \in 1..Len(last.ret.descending) :
                 /\ last.ret.descending[k].type = "descending"
                 /\ last.ret.descending[k].slope.n < 0
                 /\ BuiltFrom(last.ret.descending[k], SwingHighs(df))

\* lines of both directions are returned
C8_BothDirections ==
    /\ last.op = "detect_trend_lines"
    /\ last.ret.ascending # << >>
    /\ last.ret.descending # << >>

\* C9: below its minimum window length (20 bars for support/resistance, 30
\* for trend lines, 50 for Fibonacci levels, 20 for consolidation zones) a
\* detector returns its empty result; from the minimum on it returns the
\* result of its full computation over the window.
C9_EmptyBelowMinimum ==
    /\ last.op = "detect_support_resistance" =>
        LET df == Tail_(data, last.args.lookback_period)
        IN  IF Len(df) < 20
            THEN last.ret = [support |-> << >>, resistance |-> << >>]
            ELSE last.ret = SupportResistanceOf(df, last.args.threshold,
                                                last.args.min_touches)
    /\ last.op = "detect_trend_lines" =>
        LET df == Tail_(data, last.args.lookback_period)
        IN  IF Len(df) < 30
            THEN last.ret = [ascending |-> << >>, descending |-> << >>]
            ELSE last.ret = TrendLinesOf(df)
    /\ last.op = "detect_fibonacci_levels" =>
        LET df == Tail_(data, last.args.lookback_period)
        IN  IF Len(df) < 50
            THEN last.ret = [empty |-> TRUE]
            ELSE /\ ~last.ret.empty
                 /\ last.ret.current_price = df[Len(df)].Close
    /\ last.op = "detect_consolidation_zones" =>
        LET df == Tail_(data, last.args.lookback_period)
        IN  IF Len(df) < 20
            THEN last.ret = << >>
            ELSE last.ret = ConsolidationZonesOf(df, last.args.threshold)

\* a window of exactly 20 bars gets the full support/resistance computation
C9_AtMinimum ==
    /\ last.op = "detect_support_resistance"
    /\ Len(Tail_(data, last.args.lookback_period)) = 20
    /\ "current_price" \in DOMAIN last.ret

C11_MergeIdentity ==
    (/\ last.op = "merge_levels"
     /\ Len(last.args.levels) = 1
     /\ last.args.threshold_pct = 0) =>
        /\ Len(last.ret) = 1
        /\ last.ret[1].price = last.args.levels[1].price
        /\ last.ret[1].date = last.args.levels[1].date
        /\ last.ret[1].touches = last.args.levels[1].touches
        /\ last.ret[1].strength = last.args.levels[1].strength

\* merge_levels has returned from a single candidate with threshold 0
C11_SingleMerged ==
    /\ last.op = "merge_levels"
    /\ Len(last.args.levels) = 1
    /\ last.args.threshold_pct = 0
    /\ Len(last.ret) = 1

\* the bars of df with a Low within 1% of 100 (Highs: of 150)
LowsAbout100(df) == {i \in 1..Len(df) : Abs(df[i].Low - 100) * 100 <= 100}

HighsAbout150(df) == {i \in 1..Len(df) : Abs(df[i].High - 150) * 100 <= 150}

\* exactly two Lows at about 100 and no other Low within 3% of 100, exactly
\* three Highs at about 150 and no other High within 3% of 150
TwoLowsThreeHighs(df) ==
    /\ Cardinality(LowsAbout100(df)) = 2
    /\ \A i \in 1..Len(df) : Abs(df[i].Low - 100) * 100 <= 300 => i \in LowsAbout100(df)
    /\ Cardinality(HighsAbout150(df)) = 3
    /\ \A i \in 1..Len(df) : Abs(df[i].High - 150) * 100 <= 450 => i \in HighsAbout150(df)

\* the levels of a returned list within 1% of price
LevelsAbout(levels, price) ==
    {k \in 1..Len(levels) :
        Abs(levels[k].price.n - price * levels[k].price.d) * 100
            <= price * levels[k].price.d}

\* exactly one level of the list is at about price, and it has these touches
OneLevelAbout(levels, price, touches) ==
    /\ Cardinality(LevelsAbout(levels, price)) = 1
    /\ \A k \in LevelsAbout(levels, price) : levels[k].touches = touches

\* five levels, each of more than the given touches, fill the list
FilledByStronger(levels, touches) ==
    /\ Len(levels) = 5
    /\ \A k \in 1..5 : levels[k].touches > touches

\* bar i of df is a pivot candidate of the column, as the pivot loop tests it
IsPivotLow(df, i) ==
    /\ i > 5 /\ i <= Len(df) - 5
    /\ \A j \in (i - 5)..(i + 5) : df[i].Low <= df[j].Low

IsPivotHigh(df, i) ==
    /\ i > 5 /\ i <= Len(df) - 5
    /\ \A j \in (i - 5)..(i + 5) : df[i].High >= df[j].High

MaximalRun(marks, a, e) ==
    /\ 1 <= a /\ a <= e /\ e <= Len(marks)
    /\ \A j \in a..e : marks[j]
    /\ a = 1 \/ ~marks[a - 1]
    /\ e = Len(marks) \/ ~marks[e + 1]

\* the bars a..a+14 of df are a run of 15 low-volatility bars with a
\* High-Low range under 3% of its lowest Low, and the 5 bars after it all
\* close above 1.03 times its highest High
QuietRunBreaksOut(df, marks, a) ==
    /\ MaximalRun(marks, a, a + 14)
    /\ a + 19 <= Len(df)
    /\ LET support    == ColMin(df, a, a + 14, LowOf)
           resistance == ColMax(df, a, a + 14, HighOf)
       IN  /\ support > 0
           /\ (resistance - support) * 100 < 3 * support
           /\ \A j \in (a + 15)..(a + 19) : df[j].Close * 100 > resistance * 103

\* C13: a run of 15 consecutive low-volatility bars with a range under 3%,
\* followed by 5 bars that all close above resistance x 1.03, yields exactly
\* one zone for that run, and its breakout is BULLISH.
C13_QuietRunYieldsBullishZone ==
    (/\ last.op = "detect_consolidation_zones"
     /\ Len(Tail_(data, last.args.lookback_period)) >= 20) =>
        LET df    == Tail_(data, last.args.lookback_period)
            marks == LowVolPeriods(df)
        IN  \A a \in 1..Len(df) :
                QuietRunBreaksOut(df, marks, a) =>
                    /\ Cardinality({k \in 1..Len(last.ret) :
                           /\ last.ret[k].start_date = df[a].Date
                           /\ last.ret[k].end_date = df[a + 14].Date}) = 1
                    /\ \A k \in 1..Len(last.ret) :
                           last.ret[k].start_date = df[a].Date =>
                               /\ last.ret[k].duration_days = 15
                               /\ last.ret[k].breakout_direction = "BULLISH"

\* zones have been detected in a window that holds such a run
C13_QuietRunSeen ==
    /\ last.op = "detect_consolidation_zones"
    /\ Len(Tail_(data, last.args.lookback_period)) >= 20
    /\ LET df == Tail_(data, last.args.lookback_period)
       IN  \E a \in 1..Len(df) : QuietRunBreaksOut(df, LowVolPeriods(df), a)

\* C14: every division of the detectors is guarded against a zero
\* denominator by skipping the candidate or substituting 0; for the value
\* area percentage, whose denominator is the window's price range, the
\* result is a number (0 when the price range is 0) and never the outcome of
\* a division by zero.
C14_ZeroDenominatorGuarded ==
    (last.op = "detect_volume_profile" /\ ~last.ret.empty) =>
        /\ ~last.ret.area.value_area_percentage.nan
        /\ last.ret.profile.price_range = 0 =>
             last.ret.area.value_area_percentage.value = 0

\* C15: the volume profile has exactly 70 bins: the volume distribution has
\* 70 entries and the bin boundaries delimit 70 intervals.
C15_SeventyBins ==
    (last.op = "detect_volume_profile" /\ ~last.ret.empty) =>
        /\ Len(last.ret.profile.volume_distribution) = 70
        /\ Len(last.ret.profile.price_bins) = 71

\* the bar of df with the given date
BarAt(df, date) == CHOOSE i \in 1..Len(df) : df[i].Date = date

\* some Close among the 5 bars after bar e is above resistance x 1.02
ClosesAbove(df, e, resistance) ==
    \E j \in (e + 1)..(e + 5) : df[j].Close * 100 > resistance * 102

\* some Close among the 5 bars after bar e is below support x 0.98
ClosesBelow(df, e, support) ==
    \E j \in (e + 1)..(e + 5) : df[j].Close * 100 < support * 98

\* C16: the breakout of a returned zone is decided by the 5 bars right after
\* its last bar: BULLISH if a Close of them exceeds resistance x 1.02 (also
\* when another is below support x 0.98), otherwise BEARISH if a Close is
\* below support x 0.98, otherwise CONSOLIDATING; with fewer than 5 bars
\* after the zone it is unresolved (None), with exactly 5 it is classified.
C16_BreakoutFromNextFive ==
    last.op = "detect_consolidation_zones" =>
        LET df == Tail_(data, last.args.lookback_period)
        IN  \A k \in 1..Len(last.ret) :
                LET zone == last.ret[k]
                    e    == BarAt(df, zone.end_date)
                IN  zone.breakout_direction =
                        IF Len(df) - e < 5 THEN "None"
                        ELSE IF ClosesAbove(df, e, zone.resistance) THEN "BULLISH"
                        ELSE IF ClosesBelow(df, e, zone.support) THEN "BEARISH"
                        ELSE "CONSOLIDATING"

\* a zone followed by exactly 5 bars, closing below and above it, is BULLISH
C16_BullishWins ==
    /\ last.op = "detect_consolidation_zones"
    /\ LET df == Tail_(data, last.args.lookback_period)
       IN  \E k \in 1..Len(last.ret) :
               /\ Len(df) - BarAt(df, last.ret[k].end_date) = 5
               /\ ClosesBelow(df, BarAt(df, last.ret[k].end_date), last.ret[k].support)
               /\ last.ret[k].breakout_direction = "BULLISH"

\* the swing points a direction's lines are drawn through
GeneratingSet(df, kind) ==
    IF kind = "ascending" THEN SwingLows(df) ELSE SwingHighs(df)

\* the price of swing point q is within 2% of the price of line at q's date
\* (the projected price is taken over the line's number of days)
WithinTwoPercent(line, q) ==
    LET days      == line.end_date - line.start_date
        projected == line.start_price * days
                       + (line.end_price - line.start_price) * (q.date - line.start_date)
    IN  Abs(q.price * days - projected) * 1000 < 20 * Abs(projected)

\* C17: the touches of every returned trend line are 2 plus the number of
\* other swing points of its generating set whose price is within 2% of the
\* line's price projected to their date; a point farther away is not
\* counted, wherever the projection lies and whatever its sign.
C17_TouchesWithinTwoPercent ==
    last.op = "detect_trend_lines" =>
        LET df == Tail_(data, last.args.lookback_period)
        IN  \A kind \in {"ascending", "descending"} :
                \A n \in 1..Len(last.ret[kind]) :
                    LET line   == last.ret[kind][n]
                        swings == GeneratingSet(df, kind)
                    IN  line.touches =
                            2 + Cardinality({k \in 1..Len(swings) :
                                    /\ swings[k].date \notin {line.start_date, line.end_date}
                                    /\ WithinTwoPercent(line, swings[k])})

\* the bars of df whose price (Low or High) is within 1% of a level's price
BarsWithinOnePercent(df, level, PriceOf(_)) ==
    {i \in 1..Len(df) :
        Abs(PriceOf(df[i]) * level.price.d - level.price.n) * 100 <= level.price.n}

\* touches and strength (in tenths) of a level agree with a count over df
Recounted(df, level, PriceOf(_)) ==
    /\ level.touches = Cardinality(BarsWithinOnePercent(df, level, PriceOf))
    /\ level.strength = MinI(level.touches * 5, 30)
    /\ level.strength \in 0..30

\* C18: every returned level's touches is the number of bars of the lookback
\* window whose Low (support) or High (resistance) is within 1% of the
\* level's merged price, however many pivots were merged into it, and its
\* strength is min(touches x 0.5, 3.0), in [0, 3].
C18_TouchesRecounted ==
    last.op = "detect_support_resistance" =>
        LET df == Tail_(data, last.args.lookback_period)
        IN  /\ \A k \in 1..Len(last.ret.support) :
                   Recounted(df, last.ret.support[k], LowOf)
            /\ \A k \in 1..Len(last.ret.resistance) :
                   Recounted(df, last.ret.resistance[k], HighOf)

\* a returned support whose price is the mean of different pivot prices and
\* whose touches reach the strength cap
C18_MergedAndCapped ==
    /\ last.op = "detect_support_resistance"
    /\ \E k \in 1..Len(last.ret.support) :
           /\ last.ret.support[k].price.d > 1
           /\ last.ret.support[k].touches > 6
           /\ last.ret.support[k].strength = 30

\* 70% of the total of v is reached by the volume c
ReachesTarget(v, c) == 10 * c >= 7 * SumSeq(v)

\* Some selection of bins of v, taken by non-increasing volume and stopped at
\* the first point where ReachesTarget holds, has lo as its lowest and hi as
\* its highest bin: the selection is the bins of a volume above w and c bins
\* of volume w, the last of them taken last.
SelectionSpans(v, lo, hi) ==
    \E w \in {v[i] : i \in 1..Len(v)} :
        LET above    == {i \in 1..Len(v) : v[i] > w}
            sumAbove == SumSeq(SelectSeq(v, LAMBDA x : x > w))
            level    == {i \in lo..hi : v[i] = w}
            ends     == {lo, hi} \ above
        IN  /\ above \subseteq lo..hi
            /\ ends \subseteq level
            /\ \E c \in 1..Cardinality(level) :
                   /\ Cardinality(ends) <= c
                   /\ ReachesTarget(v, sumAbove + c * w)
                   /\ \/ SumSeq(v) = 0 /\ above = {} /\ c = 1
                      \/ ~ReachesTarget(v, sumAbove + (c - 1) * w)

\* C19: the value area's bins are taken by non-increasing volume up to the
\* first point where their volume is at least 70% of the total (without the
\* last bin taken it is below 70%, unless the total is 0); value_area_high
\* is the upper boundary of the highest bin taken and value_area_low the
\* lower boundary of the lowest, and value_area_low < value_area_high when
\* max High > min Low.
C19_ValueAreaSelection ==
    (last.op = "detect_volume_profile" /\ ~last.ret.empty) =>
        LET v    == last.ret.profile.volume_distribution
            bins == last.ret.profile.price_bins
        IN  /\ \E lo \in 1..Len(v) :
                   /\ last.ret.area.value_area_low = bins[lo]
                   /\ \E hi \in lo..Len(v) :
                          /\ last.ret.area.value_area_high = bins[hi + 1]
                          /\ SelectionSpans(v, lo, hi)
            /\ last.ret.profile.price_range > 0 =>
                   last.ret.area.value_area_low < last.ret.area.value_area_high

\* a value area of several bins, not all bins of its lowest volume taken
C19_SeveralBinsTaken ==
    /\ last.op = "detect_volume_profile"
    /\ ~last.ret.empty
    /\ last.ret.profile.price_range > 0
    /\ LET v    == last.ret.profile.volume_distribution
           bins == last.ret.profile.price_bins
       IN  \E lo \in 1..Len(v) : \E hi \in (lo + 1)..Len(v) :
               /\ last.ret.area.value_area_low = bins[lo]
               /\ last.ret.area.value_area_high = bins[hi + 1]
               /\ \E i \in (1..Len(v)) \ (lo..hi) : v[i] = v[lo] \/ v[i] = v[hi]

\* groups are exactly the maximal runs of at least 10 marked bars of marks
GroupsAreLongRuns(marks, groups) ==
    /\ \A k \in 1..Len(groups) :
           LET group == groups[k]
           IN  /\ Len(group) >= 10
               /\ group = Range(group[1], group[Len(group)])
               /\ MaximalRun(marks, group[1], group[Len(group)])
    /\ \A k \in 1..Len(groups) : \A n \in (k + 1)..Len(groups) :
           groups[k][Len(groups[k])] + 1 < groups[n][1]
    /\ \A a \in 1..Len(marks) : \A e \in (a + 9)..Len(marks) :
           MaximalRun(marks, a, e) =>
               \E k \in 1..Len(groups) : groups[k] = Range(a, e)

\* C20: the groups detect_consolidation_zones builds on its window are
\* exactly the maximal runs of consecutive low-volatility bars of length at
\* least 10: each is a contiguous range of marked bars with an unmarked bar
\* (or none) before and after it, no two overlap or are adjacent, every such
\* run of 10 or more bars is a group, also at the end of the window, and no
\* shorter run is.
C20_GroupsAreMaximalRuns ==
    (/\ last.op = "detect_consolidation_zones"
     /\ Len(Tail_(data, last.args.lookback_period)) >= 20) =>
        \A marks \in {LowVolPeriods(Tail_(data, last.args.lookback_period))} :
            GroupsAreLongRuns(marks, Groups(marks))

\* a window with two groups, the first of exactly 10 bars, the second ending
\* at the window's last bar
C20_TenBarRunAndRunAtEnd ==
    /\ last.op = "detect_consolidation_zones"
    /\ Len(Tail_(data, last.args.lookback_period)) >= 20
    /\ \E marks \in {LowVolPeriods(Tail_(data, last.args.lookback_period))} :
           \E groups \in {Groups(marks)} :
               /\ Len(groups) = 2
               /\ Len(groups[1]) = 10
               /\ groups[2][Len(groups[2])] = Len(marks)

\* the patterns of a list with the given name
PatternsNamed(patterns, name) ==
    SelectSeq(patterns, LAMBDA p : p.pattern = name)

\* Close is within 2% of the level of levels nearest to it (levels not empty)
CloseNearNearest(levels, close) ==
    LET nearest == Nearest(levels, close)
    IN  Abs(close * nearest.price.d - nearest.price.n) * 100 < 2 * nearest.price.n

\* the level pattern of the given name and signal is emitted once when Close
\* is near the nearest of levels, with confidence and score from that level's
\* strength (in tenths), and not emitted otherwise
LevelPatternEmitted(patterns, name, signal, levels, close) ==
    LET found == PatternsNamed(patterns, name)
    IN  IF levels # << >> /\ CloseNearNearest(levels, close)
        THEN /\ Len(found) = 1
             /\ found[1].signal = signal
             /\ found[1].confidence =
                    IF Nearest(levels, close).strength > 20 THEN "HIGH" ELSE "MEDIUM"
             /\ found[1].score.n * 30 = Nearest(levels, close).strength * found[1].score.d
             /\ 0 <= found[1].score.n /\ found[1].score.n <= found[1].score.d
        ELSE found = << >>

\* C21: a Support Bounce (BULLISH) is emitted exactly when a support level
\* exists and Close is within 2% of the support nearest to Close, a
\* Resistance Test (BEARISH) exactly when the same holds for resistance;
\* confidence is HIGH if the level's strength > 2 and MEDIUM otherwise, and
\* score = strength / 3, in [0, 1].
C21_LevelPatterns ==
    (last.op = "detect_support_resistance_patterns" /\ last.ret.raised = "None") =>
        \A sr_data \in {SRDefault} :
            /\ LevelPatternEmitted(last.ret.patterns, "Support Bounce", "BULLISH",
                                   sr_data.support, sr_data.current_price)
            /\ LevelPatternEmitted(last.ret.patterns, "Resistance Test", "BEARISH",
                                   sr_data.resistance, sr_data.current_price)

\* both level patterns are emitted by one call
C21_BothEmitted ==
    /\ last.op = "detect_support_resistance_patterns"
    /\ last.ret.raised = "None"
    /\ PatternsNamed(last.ret.patterns, "Support Bounce") # << >>
    /\ PatternsNamed(last.ret.patterns, "Resistance Test") # << >>

\* the zones of the default call, as detect_support_resistance_patterns makes it
ZonesDefault ==
    detect_consolidation_zones(data, DefaultLookback, DefaultZoneThreshold)

\* the zone of zones (not empty) that ends last
MostRecentZone(zones) ==
    zones[CHOOSE k \in 1..Len(zones) :
              \A n \in 1..Len(zones) : zones[n].end_date <= zones[k].end_date]

\* C22: a Range Bound pattern (NEUTRAL, score 0.7) is emitted exactly when a
\* consolidation zone exists and the most recent zone's breakout is
\* CONSOLIDATING; not when the most recent zone is BULLISH, BEARISH or
\* unresolved, even if an earlier zone is CONSOLIDATING.
C22_RangeBoundFromLatestZone ==
    (last.op = "detect_support_resistance_patterns" /\ last.ret.raised = "None") =>
        \A zones \in {ZonesDefault} :
            LET found == PatternsNamed(last.ret.patterns, "Range Bound Trading")
            IN  IF zones # << >>
                   /\ MostRecentZone(zones).breakout_direction = "CONSOLIDATING"
                THEN /\ Len(found) = 1
                     /\ found[1].signal = "NEUTRAL"
                     /\ found[1].score.n * 10 = 7 * found[1].score.d
                ELSE found = << >>

\* an earlier zone is CONSOLIDATING, the most recent one is not, and no Range
\* Bound pattern is emitted
C22_EarlierZoneIgnored ==
    /\ last.op = "detect_support_resistance_patterns"
    /\ last.ret.raised = "None"
    /\ PatternsNamed(last.ret.patterns, "Range Bound Trading") = << >>
    /\ \E zones \in {ZonesDefault} :
           /\ Len(zones) = 2
           /\ zones[1].end_date < zones[2].end_date
           /\ zones[1].breakout_direction = "CONSOLIDATING"
           /\ zones[2].breakout_direction = "BULLISH"

\* the candidates are one level per bar of bars, in bar order, with the
\* bar's date and price
CandidatesAre(candidates, df, bars, PriceOf(_)) ==
    /\ Len(candidates) = Cardinality(bars)
    /\ \A k \in 1..Len(candidates) :
           \E i \in bars : /\ candidates[k].date = df[i].Date
                           /\ candidates[k].price = [n |-> PriceOf(df[i]), d |-> 1]
    /\ \A k \in 1..(Len(candidates) - 1) : candidates[k].date < candidates[k + 1].date

\* C23: in a window of n >= 20 bars, bar i (from 1) is a pivot-low candidate
\* exactly when 5 < i <= n - 5 and its Low is the minimum Low of the bars
\* i-5..i+5, and a pivot-high candidate exactly when its High is the maximum
\* High of them; the first and last 5 bars are never candidates and every bar
\* of a plateau is one.  With threshold 0 and min_touches 1 nothing but equal
\* prices is merged or dropped, so the returned prices are candidate prices,
\* and all of them when fewer than 5 levels are returned.
C23_PivotCandidates ==
    (/\ last.op = "detect_support_resistance"
     /\ Len(Tail_(data, last.args.lookback_period)) >= 20) =>
        \A df \in {Tail_(data, last.args.lookback_period)} :
            LET lows  == {i \in 1..Len(df) : IsPivotLow(df, i)}
                highs == {i \in 1..Len(df) : IsPivotHigh(df, i)}
            IN  /\ CandidatesAre(PivotLows(df), df, lows, LowOf)
                /\ CandidatesAre(PivotHighs(df), df, highs, HighOf)
                /\ (last.args.threshold = 0 /\ last.args.min_touches = 1) =>
                       /\ \A k \in 1..Len(last.ret.support) :
                              \E i \in lows :
                                  last.ret.support[k].price = [n |-> df[i].Low, d |-> 1]
                       /\ \A k \in 1..Len(last.ret.resistance) :
                              \E i \in highs :
                                  last.ret.resistance[k].price = [n |-> df[i].High, d |-> 1]
                       /\ Len(last.ret.support) < 5 =>
                              \A i \in lows : \E k \in 1..Len(last.ret.support) :
                                  last.ret.support[k].price = [n |-> df[i].Low, d |-> 1]
                       /\ Len(last.ret.resistance) < 5 =>
                              \A i \in highs : \E k \in 1..Len(last.ret.resistance) :
                                  last.ret.resistance[k].price = [n |-> df[i].High, d |-> 1]

\* a window whose pivot lows include two bars next to each other (a plateau)
\* and a bar with an equal Low among its first 5 bars, which is no candidate
C23_PlateauAndBoundary ==
    /\ last.op = "detect_support_resistance"
    /\ last.args.threshold = 0 /\ last.args.min_touches = 1
    /\ \E df \in {Tail_(data, last.args.lookback_period)} :
           /\ Len(df) >= 20
           /\ \E i \in 1..(Len(df) - 1) : IsPivotLow(df, i) /\ IsPivotLow(df, i + 1)
           /\ \E i \in 1..Len(df) : \E j \in 1..5 :
                  IsPivotLow(df, i) /\ df[j].Low = df[i].Low
           /\ \E k \in 1..Len(last.ret.support) : \E i \in 1..(Len(df) - 1) :
                  /\ IsPivotLow(df, i) /\ IsPivotLow(df, i + 1)
                  /\ last.ret.support[k].price = [n |-> df[i].Low, d |-> 1]

\* the support/resistance step of get_trading_signal on the same series,
\* from a score of 0 and no notes
SignalDefault == get_trading_signal(data, 0, << >>)

\* C24: whenever detect_support_resistance_patterns emits a Resistance Test
\* pattern, the support/resistance step of get_trading_signal on the same
\* series applies the -5 near-resistance adjustment and not the +2 'room to
\* resistance' adjustment.
C24_ResistanceTestMeansPenalty ==
    (/\ last.op = "detect_support_resistance_patterns"
     /\ last.ret.raised = "None"
     /\ PatternsNamed(last.ret.patterns, "Resistance Test") # << >>) =>
        \A signal \in {SignalDefault} :
            /\ HasNote(signal.signals, "Near strong resistance")
            /\ ~HasNote(signal.signals, "Room to resistance")
            /\ signal.score - SupportDelta(signal.signals) = -5

\* the levels of one kind that pass the min_touches filter, before the list
\* is sorted and cut to 5
PassingLevels(df, kind, threshold, min_touches) ==
    IF kind = "support"
    THEN count_touches(merge_levels(PivotLows(df), threshold),
                       MapSeq(df, LowOf), min_touches)
    ELSE count_touches(merge_levels(PivotHighs(df), threshold),
                       MapSeq(df, HighOf), min_touches)

\* the levels of passing that are not in returned
DroppedLevels(passing, returned) ==
    {passing[k] : k \in 1..Len(passing)} \ {returned[k] : k \in 1..Len(returned)}

\* C25 as stated: when more than 5 levels of a kind pass the min_touches
\* filter, no returned level has fewer touches than a level dropped by the
\* cut to 5.
C25_NoBetterTestedDropped ==
    (/\ last.op = "detect_support_resistance"
     /\ Len(Tail_(data, last.args.lookback_period)) >= 20) =>
        \A kind \in {"support", "resistance"} :
            \A passing \in {PassingLevels(Tail_(data, last.args.lookback_period), kind,
                                          last.args.threshold, last.args.min_touches)} :
                Len(passing) > 5 =>
                    \A k \in 1..Len(last.ret[kind]) :
                        \A dropped \in DroppedLevels(passing, last.ret[kind]) :
                            last.ret[kind][k].touches >= dropped.touches

\* C25: when more than 5 levels of a kind pass the min_touches filter, no
\* returned level has fewer touches than a level dropped by the cut to 5,
\* unless both have at least 6 touches (their strength is then 3.0 alike).
C25_NoStrongerDropped ==
    (/\ last.op = "detect_support_resistance"
     /\ Len(Tail_(data, last.args.lookback_period)) >= 20) =>
        \A kind \in {"support", "resistance"} :
            \A passing \in {PassingLevels(Tail_(data, last.args.lookback_period), kind,
                                          last.args.threshold, last.args.min_touches)} :
                Len(passing) > 5 =>
                    \A k \in 1..Len(last.ret[kind]) :
                        \A dropped \in DroppedLevels(passing, last.ret[kind]) :
                            \/ last.ret[kind][k].touches >= dropped.touches
                            \/ last.ret[kind][k].touches >= 6 /\ dropped.touches >= 6

\* six supports pass the filter and the one dropped has more touches than
\* every one returned
C25_MostTestedDropped ==
    /\ last.op = "detect_support_resistance"
    /\ Len(last.ret.support) = 5
    /\ \E passing \in {PassingLevels(Tail_(data, last.args.lookback_period), "support",
                                     last.args.threshold, last.args.min_touches)} :
           /\ Len(passing) = 6
           /\ \E dropped \in DroppedLevels(passing, last.ret.support) :
                  \A k \in 1..5 : last.ret.support[k].touches < dropped.touches

\* the price of level b exceeds that of level a by more than threshold
\* (per-mille) of a's price, for positive prices
FartherThan(a, b, threshold) ==
    (b.price.n * a.price.d - a.price.n * b.price.d) * 1000
        > threshold * a.price.n * b.price.d

\* C26: any two distinct levels of one returned list differ in price by more
\* than the merge threshold relative to the lower of the two.
C26_LevelsSeparated ==
    last.op = "detect_support_resistance" =>
        \A levels \in {last.ret.support, last.ret.resistance} :
            \A k, n \in 1..Len(levels) :
                k # n =>
                    \/ FartherThan(levels[k], levels[n], last.args.threshold)
                    \/ FartherThan(levels[n], levels[k], last.args.threshold)

\* a list is returned with a level merged from different prices and another
\* level less than twice the (positive) threshold above it
C26_MergedNeighbours ==
    /\ last.op = "detect_support_resistance"
    /\ last.args.threshold > 0
    /\ \E levels \in {last.ret.support, last.ret.resistance} :
           \E k, n \in 1..Len(levels) :
               /\ levels[k].price.d > 1
               /\ FartherThan(levels[k], levels[n], last.args.threshold)
               /\ ~FartherThan(levels[k], levels[n], 2 * last.args.threshold)

\* the touches of levels a and b are those of different bars of df: together
\* they are as many as the bars within 1% of one of the two
NoSharedTouch(df, a, b, PriceOf(_)) ==
    a.touches + b.touches =
        Cardinality(BarsWithinOnePercent(df, a, PriceOf)
                        \cup BarsWithinOnePercent(df, b, PriceOf))

\* level b lies more than 1.01 / 0.99 times above level a
BeyondBothTolerances(a, b) ==
    99 * b.price.n * a.price.d > 101 * a.price.n * b.price.d

\* C27 as stated: with the default merge threshold (2%) and the recount
\* tolerance of 1%, no bar of the window is counted as a touch of two
\* distinct returned levels of one kind.
C27_NoDoubleCountedTouch ==
    (/\ last.op = "detect_support_resistance"
     /\ last.args = [lookback_period |-> 100, threshold |-> 20, min_touches |-> 2]
     /\ Len(data) >= 20) =>
        \A df \in {Tail_(data, 100)} :
            /\ \A k, n \in 1..Len(last.ret.support) :
                   k # n => NoSharedTouch(df, last.ret.support[k],
                                          last.ret.support[n], LowOf)
            /\ \A k, n \in 1..Len(last.ret.resistance) :
                   k # n => NoSharedTouch(df, last.ret.resistance[k],
                                          last.ret.resistance[n], HighOf)

\* C27: with the default arguments, no bar of the window is counted as a
\* touch of two distinct returned levels of one kind whose prices are more
\* than 1.01 / 0.99 apart (2.0203% of the lower); levels between 2% and that
\* apart can both count a bar between them.
C27_NoDoubleCountBeyondTolerances ==
    (/\ last.op = "detect_support_resistance"
     /\ last.args = [lookback_period |-> 100, threshold |-> 20, min_touches |-> 2]
     /\ Len(data) >= 20) =>
        \A df \in {Tail_(data, 100)} :
            /\ \A k, n \in 1..Len(last.ret.support) :
                   BeyondBothTolerances(last.ret.support[k], last.ret.support[n])
                       => NoSharedTouch(df, last.ret.support[k],
                                        last.ret.support[n], LowOf)
            /\ \A k, n \in 1..Len(last.ret.resistance) :
                   BeyondBothTolerances(last.ret.resistance[k], last.ret.resistance[n])
                       => NoSharedTouch(df, last.ret.resistance[k],
                                        last.ret.resistance[n], HighOf)

\* two supports less than 3% but more than 1.01 / 0.99 apart are returned
\* for the default arguments
C27_CloseSupports ==
    /\ last.op = "detect_support_resistance"
    /\ last.args = [lookback_period |-> 100, threshold |-> 20, min_touches |-> 2]
    /\ \E k, n \in 1..Len(last.ret.support) :
           /\ BeyondBothTolerances(last.ret.support[k], last.ret.support[n])
           /\ ~FartherThan(last.ret.support[k], last.ret.support[n], 30)

C29_SupportBounceMeansBonus ==
    (/\ last.op = "detect_support_resistance_patterns"
     /\ last.ret.raised = "None"
     /\ PatternsNamed(last.ret.patterns, "Support Bounce") # << >>) =>
        \A signal \in {SignalDefault} :
            /\ HasNote(signal.signals, "Near strong support")
            /\ signal.score - ResistanceDelta(signal.signals) = 5

\* a Support Bounce is emitted with Close more than 1% of Close above the
\* support
C29_BounceAboveSupport ==
    /\ last.op = "detect_support_resistance_patterns"
    /\ last.ret.raised = "None"
    /\ \E k \in 1..Len(last.ret.patterns) :
           /\ last.ret.patterns[k].pattern = "Support Bounce"
           /\ \E close \in {data[Len(data)].Close} :
                  (close * last.ret.patterns[k].price.d - last.ret.patterns[k].price.n) * 100
                      > close * last.ret.patterns[k].price.d

\* C30: for a series of at least 50 bars whose bars close at or below their
\* High, every extension price is at least swing_high, the extension prices
\* are non-decreasing in ratio, and nearest_extension is the 1.272 extension
\* price, swing_high + (swing_high - swing_low) x 0.272, wherever Close lies.
\* (Prices of the result are in thousandths.)
C30_NearestExtensionIsFirst ==
    (/\ last.op = "detect_fibonacci_levels"
     /\ ~last.ret.empty
     /\ \A i \in 1..Len(data) : data[i].Close <= data[i].High) =>
        /\ Len(last.ret.extension_levels) = 5
        /\ \A k \in 1..5 : last.ret.extension_levels[k] >= 1000 * last.ret.swing_high
        /\ \A k \in 1..4 :
               last.ret.extension_levels[k] <= last.ret.extension_levels[k + 1]
        /\ last.ret.nearest_extension = last.ret.extension_levels[1]
        /\ last.ret.nearest_extension =
               1000 * last.ret.swing_high
                   + 272 * (last.ret.swing_high - last.ret.swing_low)

\* extension prices have been computed for a window whose last bar closes at
\* the window's lowest Low, below its highest High
C30_CloseAtSwingLow ==
    /\ last.op = "detect_fibonacci_levels"
    /\ ~last.ret.empty
    /\ last.ret.swing_high > last.ret.swing_low
    /\ last.ret.current_price = last.ret.swing_low

====
